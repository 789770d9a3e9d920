----------------------------- MODULE SwitchRules ----------------------------
(***************************************************************************)
(* The emulators of the Switch: Ryujinx (Config.json), Yuzu and Eden (qt-  *)
(* config.ini, where "key\default" tells whether the emulator takes its    *)
(* own value instead). All three files are kept and saved over.            *)
(***************************************************************************)
EXTENDS ConfigRules

\* A key together with the one that says it is the user's own.
Own(section, K) == In(section, K \cup {k \o "\\default" : k \in K})

\* RYUJINX_CONFIG_DEFAULTS and _merge_defaults: what the file lacks, or has as null.
RyujinxDefaults == {
    Seed({"version", "enable_file_log", "backend_threading", "res_scale", "res_scale_custom",
          "max_anisotropy", "aspect_ratio", "anti_aliasing", "scaling_filter", "scaling_filter_level",
          "graphics_shaders_dump_path", "logging_enable_debug", "logging_enable_stub",
          "logging_enable_info", "logging_enable_warn", "logging_enable_error", "logging_enable_trace",
          "logging_enable_guest", "logging_enable_fs_access_log", "logging_enable_avalonia",
          "logging_filtered_classes", "logging_graphics_debug_level", "system_language",
          "system_region", "system_time_zone", "system_time_offset", "match_system_time",
          "use_input_global_config", "docked_mode", "enable_discord_integration",
          "check_updates_on_start", "update_checker_type", "focus_lost_action_type",
          "show_confirm_exit", "ignore_applet", "skip_user_profiles", "skip_videos",
          "remember_window_state", "show_title_bar", "enable_hardware_acceleration", "hide_cursor",
          "enable_vsync", "vsync_mode", "enable_custom_vsync_interval", "custom_vsync_interval",
          "enable_shader_cache", "enable_texture_recompression", "enable_macro_hle",
          "enable_color_space_passthrough", "enable_ptc", "enable_low_power_ptc", "tick_scalar",
          "enable_internet_access", "enable_fs_integrity_checks", "fs_global_access_log_mode",
          "audio_backend", "audio_volume", "memory_manager_mode", "dram_size",
          "ignore_missing_services", "gui_columns", "column_sort", "game_dirs", "autoload_dirs",
          "shown_file_types", "window_startup", "language_code", "base_style", "game_list_view_mode",
          "show_names", "grid_size", "application_sort", "is_ascending_order", "start_fullscreen",
          "start_no_ui", "show_console", "enable_keyboard", "enable_mouse",
          "disable_input_when_out_of_focus", "hotkeys", "input_config", "rainbow_speed",
          "graphics_backend", "preferred_gpu", "multiplayer_mode", "multiplayer_lan_interface_id",
          "multiplayer_disable_p2p", "multiplayer_ldn_passphrase", "ldn_server", "use_hypervisor",
          "enable_gdb_stub", "gdb_stub_port", "debugger_suspend_on_start", "show_dirty_hacks",
          "dirty_hacks"})}

\* generate: the settings of the window, the console and the picture.
RyujinxSettings == {
    Always({"version", "enable_discord_integration", "check_updates_on_start", "show_confirm_exit",
            "skip_user_profiles", "skip_videos", "hide_cursor", "game_dirs", "start_fullscreen",
            "show_title_bar", "remember_window_state", "use_input_global_config", "start_no_ui",
            "focus_lost_action_type", "audio_volume", "window_startup", "language_code",
            "system_language", "system_region", "system_time_zone", "system_time_offset", "docked_mode",
            "graphics_backend", "aspect_ratio", "max_anisotropy", "enable_vsync", "vsync_mode",
            "enable_custom_vsync_interval", "custom_vsync_interval", "backend_threading",
            "enable_shader_cache", "scaling_filter", "scaling_filter_level", "anti_aliasing",
            "enable_texture_recompression", "enable_macro_hle", "enable_color_space_passthrough",
            "hotkeys", "res_scale", "res_scale_custom"}),
    Gone({"hide_cursor_on_idle"})}

\* generate: emulation, sound and network. The list of pads starts empty at every launch; each pad is
\* appended to it by reading and rewriting the file.
RyujinxMachine == {
    Always({"enable_ptc", "enable_low_power_ptc", "enable_fs_integrity_checks", "memory_manager_mode",
            "dram_size", "tick_scalar", "ignore_missing_services", "ignore_applet", "audio_backend",
            "multiplayer_mode", "enable_internet_access", "input_config"}),
    When("option", {"multiplayer_lan_interface_id"})}

\* _write_runtime_wrapper: the script that starts it, made at every launch.
RyujinxScript == {Always({"uclamp", "fullscreen", "exec"})}

\* _write_xdg_open_wrapper.
RyujinxBrowser == {Always({"xdg-open"})}

\* _ensure_profile_json: rewritten when it cannot be read or lists nobody, which is when it has no good
\* value.
RyujinxProfiles == {Seed({"profiles", "last_opened"})}

\* writeConfig: the window, the shortcuts (a key for each of them), the folders and the processor.
YuzuInterface == {
    Always(Own("UI", {"fullscreen", "singleWindowMode", "enable_discord_presence", "firstStart",
          "calloutFlags", "confirmClose", "confirmExit", "confirmStop", "check_for_updates_on_start",
          "UIGameList\\cache_game_list", "Paths\\gamedirs\\1\\path", "Paths\\gamedirs\\size"})
      \cup In("UI", {"Shortcuts\\CaptureScreenshot", "Shortcuts\\Continue\\PauseEmulation",
          "Shortcuts\\RestartEmulation", "Shortcuts\\ToggleFramerateLimit",
          "Shortcuts\\Load\\RemoveAmiibo", "Shortcuts\\Controller_KeySeq"})
      \cup In("Data%20Storage", {"nand_directory", "load_directory", "sdmc_directory", "use_virtual_sd"})
      \cup In("Core", {"use_multi_core"}) \cup In("Cpu", {"cpu_accuracy", "cpu_backend\\default"})),
    When("option", In("Cpu", {"cpu_backend"}))}

\* writeConfig: the renderer. An option the user no longer sets leaves its value in the file, and only
\* "default" tells that it is not his.
YuzuPicture == {
    Always(In("Renderer", {"backend", "shader_backend\\default", "use_asynchronous_gpu_emulation",
          "use_asynchronous_shaders", "nvdec_emulation", "gpu_accuracy", "resolution_setup",
          "accelerate_astc", "use_vsync\\default", "aspect_ratio\\default", "scaling_filter\\default",
          "anti_aliasing\\default", "max_anisotropy\\default", "astc_recompression\\default",
          "vram_usage_mode\\default", "async_presentation\\default", "use_fast_gpu_time\\default"})),
    When("option", In("Renderer", {"shader_backend", "vulkan_device", "use_vsync", "aspect_ratio",
          "scaling_filter", "anti_aliasing", "max_anisotropy", "astc_recompression", "vram_usage_mode",
          "async_presentation", "use_fast_gpu_time", "fast_gpu_time"}))}

\* writeConfig: rumble, language, docking and telemetry.
YuzuMachine == {
    Always(Own("Controls", {"enable_procon_driver", "enable_joycon_driver"})
      \cup In("Controls", {"vibration_enabled\\default", "player_0_vibration_strength\\default"})
      \cup Own("System", {"use_docked_mode"}) \cup In("System", {"language_index", "region_index"})
      \cup Own("WebService", {"enable_telemetry", "enable_auto_update_check", "yuzu_username",
          "yuzu_token"})),
    When("option", In("Controls", {"vibration_enabled", "player_0_vibration_strength"}))}

\* _set_switch_style_controllers: of ten players each is said to be there or not; what an absent one had
\* stays. One key of each sort; N is a player.
YuzuPads == {
    Always(In("Controls", {"player_N_connected", "player_N_connected\\default"})),
    When("players", Own("Controls", {
        "player_N_type", "player_N_button_a", "player_N_lstick", "player_N_button_screenshot",
        "player_N_motionleft", "player_N_motionright", "player_N_vibration_enabled"}))}

\* configure_switch_dsu_motion: the motion of the first player comes from the console while the service
\* that serves it runs; what was set stays when it no longer does.
SwitchMotion == {
    When("option", Own("Controls", {"motion_enabled", "udp_input_servers"}))}

\* _write_uclamp_wrapper.
YuzuScript == {Always({"uclamp", "exec"})}

\* writeConfig: the window, the shortcuts and the folders.
EdenInterface == {
    Always(Own("UI", {"fullscreen", "singleWindowMode", "enable_discord_presence", "confirmClose",
          "UIGameList\\cache_game_list", "Paths\\gamedirs\\1\\path", "Paths\\gamedirs\\size"})
      \cup In("UI", {"Shortcuts\\CaptureScreenshot", "Shortcuts\\Continue\\PauseEmulation",
          "Shortcuts\\RestartEmulation", "Shortcuts\\ToggleFramerateLimit",
          "Shortcuts\\Load\\RemoveAmiibo", "Shortcuts\\Controller_KeySeq"})
      \cup Own("Data%20Storage", {"nand_directory", "load_directory", "sdmc_directory",
          "dump_directory", "tas_directory", "use_virtual_sd"})
      \cup Own("Screenshots", {"screenshot_path"}))}

\* writeConfig: the machine, the renderer, the sound and telemetry.
EdenMachine == {
    Always(Own("Core", {"use_multi_core", "memory_layout_mode"})
      \cup Own("Renderer", {"backend", "use_asynchronous_gpu_emulation", "use_asynchronous_shaders",
          "nvdec_emulation", "gpu_accuracy", "resolution_setup", "astc_recompression", "use_vsync",
          "aspect_ratio", "anti_aliasing", "scaling_filter", "max_anisotropy", "fix_bloom_effects"})
      \cup Own("Cpu", {"cpu_accuracy"}) \cup In("Cpu", {"cpu_backend\\default"})
      \cup Own("System", {"language_index", "region_index", "use_docked_mode"})
      \cup Own("Audio", {"output_engine", "sound_index"})
      \cup Own("Controls", {"enable_joycon_driver"})
      \cup Own("WebService", {"enable_telemetry"})),
    When("option", Own("Renderer", {"vulkan_device"}) \cup In("Cpu", {"cpu_backend"}))}

\* _set_switch_style_controllers.
EdenPads == {
    Always(In("Controls", {"player_N_connected", "player_N_connected\\default"})),
    When("players", Own("Controls", {
        "player_N_type", "player_N_button_a", "player_N_lstick", "player_N_button_screenshot",
        "player_N_motionleft", "player_N_motionright", "player_N_vibration_enabled"}))}

\* _write_uclamp_wrapper.
EdenScript == {Always({"uclamp", "exec"})}

\* The files, and how each is read.
SwitchUnits ==
    "ryujinx" :> Tolerant("Config.json", RyujinxDefaults \cup RyujinxSettings \cup RyujinxMachine)
 @@ "ryujinx-script" :> Anew("ryujinx-launch.sh", RyujinxScript)
 @@ "ryujinx-browser" :> Anew("xdg-open", RyujinxBrowser)
 @@ "ryujinx-profiles" :> Tolerant("Profiles.json", RyujinxProfiles)
 @@ "yuzu" :> Strict("yuzu/qt-config.ini", YuzuInterface \cup YuzuPicture \cup YuzuMachine \cup
        YuzuPads \cup SwitchMotion)
 @@ "yuzu-script" :> Anew("yuzu-perf.sh", YuzuScript)
 @@ "eden" :> Strict("eden/qt-config.ini", EdenInterface \cup EdenMachine \cup EdenPads \cup
        SwitchMotion)
 @@ "eden-script" :> Anew("eden-perf.sh", EdenScript)
=============================================================================
