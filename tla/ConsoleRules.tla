---------------------------- MODULE ConsoleRules ----------------------------
(***************************************************************************)
(* The emulators of the consoles of Microsoft, of the Saturn and of the    *)
(* Jaguar: Xenia and its fork Edge, xemu, Ymir, YabaSanshiro and BigPEmu.  *)
(* N is a player.                                                          *)
(***************************************************************************)
EXTENDS ConfigRules

\* generate: the file of the core, which each core has to itself: processor, picture and sound.
XeniaMachine == {
    Always(In("CPU", {"break_on_unimplemented_instructions", "disable_context_promotion"})
      \cup In("Content", {"license_mask"}) \cup In("D3D12", {"d3d12_readback_resolve",
          "d3d12_queue_priority", "d3d12_debug", "d3d12_allow_variable_refresh_rate_and_tearing"})
      \cup In("Vulkan", {"vulkan_sparse_shared_memory", "vulkan_allow_present_mode_immediate"})
      \cup In("Display", {"fullscreen", "internal_display_resolution", "postprocess_antialiasing",
          "postprocess_scaling_and_sharpening"})
      \cup In("Video", {"internal_display_resolution", "video_standard", "avpack", "widescreen",
          "use_50Hz_mode", "async_shader_compilation"})
      \cup In("APU", {"use_dedicated_xma_thread"}))}

\* generate: how the picture is drawn and cached. A path chosen for one of the two backends leaves the
\* other as it was.
XeniaPicture == {
    Always(In("GPU", {"gpu", "vsync", "framerate_limit", "clear_memory_page_state",
          "gpu_allow_invalid_fetch_constants", "render_target_path",
          "query_occlusion_fake_sample_count", "query_occlusion_sample_lower_threshold",
          "query_occlusion_sample_upper_threshold", "texture_cache_memory_limit_hard",
          "texture_cache_memory_limit_render_to_texture", "texture_cache_memory_limit_soft",
          "texture_cache_memory_limit_soft_lifetime"})),
    When("option", In("GPU", {"render_target_path_d3d12", "render_target_path_vulkan",
          "readback_resolve"}))}

\* generate: the console and its folders.
XeniaSystem == {
    Always(In("General", {"discord", "apply_patches", "controller_hotkeys", "notification_sound_path"})
      \cup In("HID", {"hid"}) \cup In("Logging", {"log_level"})
      \cup In("Memory", {"protect_zero", "scribble_heap"}) \cup In("Storage", {"cache_root",
          "content_root", "mount_scratch", "storage_root", "mount_cache"})
      \cup In("UI", {"headless", "show_achievement_notification", "notification_sound_path",
          "achievement_sound_path"}) \cup In("XConfig", {"user_country", "user_language"}))}

\* _apply_xenia_profiles: who plays. "Preserve emulator-managed slots rather than blanking them": the
\* slot a game signs a profile in to has it for the games that say nothing.
XeniaProfiles == {
    Always(In("Profiles", {"batocera_auto_profile"})),
    When("option", In("Profiles", {"logged_profile_slot_N_xuid"}))}

\* generate: the patches of a game are switched on where the user wants patches; nothing switches them
\* off again.
XeniaPatches == {When("option", In("patch", {"is_enabled"}))}

\* generate: xenia-edge.config.toml. Some tables are replaced whole, with what the user had in them. The
\* draws of a frame are only given where the user has none of his own.
EdgeSettings == {
    Always(In("APU", {"apu"}) \cup In("CPU", {"break_on_unimplemented_instructions"})
      \cup In("Content", {"license_mask"}) \cup In("Display", {"fullscreen",
          "internal_display_resolution", "postprocess_scaling_and_sharpening",
          "postprocess_antialiasing", "postprocess_ffx_cas_additional_sharpness",
          "postprocess_ffx_fsr_sharpness_reduction"}) \cup In("General", {"discord"})
      \cup In("GPU", {"gpu", "vsync", "framerate_limit", "texture_cache_memory_limit_hard",
          "texture_cache_memory_limit_render_to_texture", "texture_cache_memory_limit_soft",
          "texture_cache_memory_limit_soft_lifetime"}) \cup In("HID", {"hid"})
      \cup In("Logging", {"log_level"}) \cup In("Memory", {"protect_zero"})
      \cup In("Storage", {"storage_root", "content_root", "cache_root", "mount_scratch", "mount_cache"})
      \cup In("UI", {"headless", "show_achievement_notification", "notification_sound_path",
          "achievement_sound_path"}) \cup In("Vulkan", {"vulkan_sparse_shared_memory"})
      \cup In("XConfig", {"user_country", "user_language"})),
    When("option", In("General", {"apply_patches"})),
    Seed(In("General", {"apply_patches"}) \cup In("GPU", {"vulkan_mid_frame_submission_draws"})),
    Gone(In("APU", {"user"}) \cup In("CPU", {"user"}) \cup In("HID", {"user"}))}

\* _apply_xenia_profiles: as Xenia has it.
EdgeProfiles == {
    Always(In("Profiles", {"batocera_auto_profile"})),
    When("option", In("Profiles", {"logged_profile_slot_N_xuid"}))}

\* createXemuConfig: xemu.toml. All ports are emptied before the pads are plugged in; how the network is
\* reached stays.
XemuSettings == {
    Always(In("general", {"skip_boot_anim", "show_welcome", "screenshot_dir"})
      \cup In("sys", {"mem_limit"}) \cup In("sys.files", {"flashrom_path", "bootrom_path", "hdd_path",
          "eeprom_path", "dvd_path"}) \cup In("audio", {"use_dsp"})
      \cup In("display", {"renderer"}) \cup In("display.quality", {"surface_scale"})
      \cup In("display.window", {"fullscreen_on_startup", "startup_size", "vsync"})
      \cup In("display.ui", {"show_menubar", "fit", "aspect_ratio"}) \cup In("net", {"enable"})),
    Either(In("input.bindings", {"portN"})),
    When("option", In("display.vulkan", {"preferred_physical_device"})
      \cup In("net", {"backend"}) \cup In("net.udp", {"remote_addr", "bind_addr"}))}

\* generate: Ymir.toml, where there is none or it cannot be read.
YmirDefaults == {
    Made(In("", {"ConfigVersion"}) \cup In("Cartridge", {"AutoLoadGameCarts", "Type"})
      \cup In("General", {"BoostEmuThreadPriority", "BoostProcessPriority", "EnableRewindBuffer",
          "PauseWhenUnfocused", "PreloadDiscImagesToRAM", "RewindCompressionLevel"})
      \cup In("System", {"AutoDetectRegion", "InternalBackupRAMPerGame"})
      \cup In("Video", {"AutoResizeWindow", "Deinterlace", "FullScreen", "ForceAspectRatio",
          "ForceIntegerScaling", "ThreadedVDP1", "ThreadedVDP2", "ThreadedDeinterlacer"}))}

\* generate: what is set in it.
YmirSettings == {
    Always(In("General", {"CheckForUpdates", "IncludeNightlyBuilds"})
      \cup In("System", {"AutoDetectRegion", "InternalBackupRAMPerGame"})
      \cup In("Cartridge", {"AutoLoadGameCarts"}) \cup In("Video", {"AutoResizeWindow",
          "DisplayVideoOutputInWindow", "FullScreen", "ThreadedDeinterlacer", "ForceAspectRatio",
          "ForceIntegerScaling", "ThreadedVDP1", "ThreadedVDP2", "ForcedAspect", "Deinterlace",
          "TransparentMeshes", "Rotation"})
      \cup In("Input", {"GamepadAnalogToDigitalSensitivity", "GamepadLSDeadzone", "GamepadRSDeadzone"})
      \cup In("PathOverrides", {"BackupMemory", "CDBlockROMImages", "Dumps", "ExportedBackups",
          "IPLROMImages", "PersistentState", "ROMCartImages", "SaveStates", "Screenshots"}))}

\* generate: both ports are cleared, then those of the pads get their device and the keys of every kind
\* of peripheral.
YmirPorts == {
    Always(In("Input/PortN", {"PeripheralType"})),
    Either(In("Input/PortN", {
        "DevicePath", "ControlPad/Binds", "AnalogPad/Binds", "ArcadeRacer/Binds",
        "ArcadeRacer/Sensitivity", "MissionStick/Binds"}))}

\* _write_keymap: the keys of the first two pads.
YabaSanshiroPads == {
    When("players", In("playerN", {"DeviceID", "deviceGUID", "deviceName", "padmode"})
      \cup In("pad", {"up", "start", "a", "z", "l", "select", "analogx", "analogleft"}))}

\* _write_game_config: the file of the game.
YabaSanshiroGame == {
    Always({"Aspect rate", "Resolution", "Rotate screen", "Rotate screen resolution",
            "Use compute shader"})}

\* generate: the whole file, which is deleted first, "as it does not like to be updated".
BigPEmuSettings == {
    Always(In("Video", {"DisplayMode", "ScreenScaling", "DisplayWidth", "DisplayHeight",
          "DisplayFrequency", "VSync", "ScreenAspect", "LockAspect", "ScreenFilter"})
      \cup In("Input", {"DeviceCount", "AnalDeadMice", "AnalToDigi", "AnalExpo", "ConflictingPad",
          "XboxAnus", "OLAnchor", "OLScale", "MouseInput", "MouseSens", "MouseThresh", "InputVer",
          "InputPluginVer"})
      \cup In("Scripts", {"ScriptsEnabled", "DOOM-Music"})),
    When("players", In("Input/DeviceN", {"DeviceType", "InvertAnally", "RotaryScale",
          "HeadTrackerScale", "HeadTrackerSpring", "Bindings"}))}

\* The files, and how each is read.
ConsoleUnits ==
    "xenia" :> Tolerant("xenia.config.toml", XeniaMachine \cup XeniaPicture \cup XeniaSystem \cup
        XeniaProfiles)
 @@ "xenia-patches" :> Strict("game.patch.toml", XeniaPatches)
 @@ "xenia-edge" :> Strict("xenia-edge.config.toml", EdgeSettings \cup EdgeProfiles)
 @@ "xemu" :> Tolerant("xemu.toml", XemuSettings)
 @@ "ymir" :> Tolerant("Ymir.toml", YmirDefaults \cup YmirSettings \cup YmirPorts)
 @@ "yabasanshiro-pads" :> Anew("keymapv2.json", YabaSanshiroPads)
 @@ "yabasanshiro-game" :> Anew("yabasanshiro/game.config", YabaSanshiroGame)
 @@ "bigpemu" :> Anew("BigPEmuConfig.bigpcfg", BigPEmuSettings)
=============================================================================
