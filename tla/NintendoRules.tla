---------------------------- MODULE NintendoRules ---------------------------
(***************************************************************************)
(* The emulators of Nintendo's other consoles: Dolphin, Cemu, Mupen64Plus, *)
(* Gopher64, Azahar, melonDS, DraStic and SkyEmu. Where a pad has one key  *)
(* for each of its buttons, the tables have one key of each sort; N is a   *)
(* player.                                                                 *)
(***************************************************************************)
EXTENDS ConfigRules

\* A key of Azahar together with the one that says it is the user's own.
Chosen(section, K) == In(section, K \cup {k \o "\\default" : k \in K})

\* generate: Qt.ini, for the slot of the states.
DolphinQt == {
    Always(In("Emulation", {"StateSlot"}))}

\* generate: Dolphin.ini, from the paths of the games, set once, to the wiimotes.
DolphinMachine == {
    Always(In("General", {"AutoIncrementSlot"}) \cup In("Analytics", {"PermissionAsked"})
      \cup In("Interface", {"UsePanicHandlers", "OnScreenDisplayMessages", "ConfirmStop"})
      \cup In("Display", {"Fullscreen"}) \cup In("Core", {"EnableCheats", "FastDiscSpeed", "CPUThread",
          "SyncGPU", "SelectedLanguage", "MMU", "GFXBackend", "WiimoteContinuousScanning"})),
    Seed(In("General", {"ISOPath0", "ISOPath1", "ISOPaths"})),
    Gone(In("Display", {"RenderToMain"}))}

\* generate: Dolphin.ini, what is plugged into the four ports, the crosshairs of the guns, the BIOS and
\* the sound. The port of an absent pad is set too.
DolphinPorts == {
    Always(In("Core", {"SIDevice0", "SIDevice1", "SIDevice2", "SIDevice3", "AutoDiscChange", "SkipIPL",
          "DPL2Decoder", "DSPHLE"}) \cup In("DSP", {"Backend", "EnableJIT"})),
    Either(In("General", {"CustomTexturesPath"}))}

\* generate: GFX.ini. The hacks are taken out again when they are off; the adapter, once chosen, stays.
DolphinPicture == {
    Always(In("Settings", {"AspectRatio", "ShowFPS", "HiresTextures", "CacheHiresTextures",
          "wideScreenHack", "ShaderCompilationMode", "WaitForShadersBeforeStarting",
          "InternalResolution", "MSAA", "SSAA"}) \cup In("Hacks", {"VISkip", "FastTextureSampling"})
      \cup In("Hardware", {"VSync"}) \cup In("Enhancements", {"MaxAnisotropy"})),
    Either(In("Hacks", {"BBoxEnable", "DeferEFBCopies", "EFBEmulateFormatChanges", "EFBScaledCopy",
          "EFBToTextureEnable", "SkipDuplicateXFBs", "XFBToTextureEnable"})
      \cup In("Enhancements", {"ForceFiltering", "ArbitraryMipmapDetection", "DisableCopyFilter",
          "ForceTrueColor"})),
    When("host", In("Hardware", {"Adapter"}))}

\* generate: Hotkeys.ini, overwritten to avoid issues.
DolphinHotkeys == {
    Always(In("Hotkeys", {"Device", "General/Open", "General/Toggle Pause", "General/Stop",
          "General/Toggle Fullscreen", "General/Take Screenshot", "General/Exit",
          "Emulation Speed/Disable Emulation Speed Limit", "Stepping/Step Into", "Stepping/Step Over",
          "Stepping/Step Out", "Breakpoint/Toggle Breakpoint", "Wii/Connect Wii Remote 1",
          "Wii/Connect Wii Remote 2", "Wii/Connect Wii Remote 3", "Wii/Connect Wii Remote 4",
          "Wii/Connect Balance Board", "Other State Hotkeys/Increase Selected State Slot",
          "Other State Hotkeys/Decrease Selected State Slot", "Load State/Load from Selected Slot",
          "Save State/Save to Selected Slot", "Other State Hotkeys/Undo Load State",
          "GBA Core/Load ROM", "GBA Core/Unload ROM", "GBA Core/Reset", "GBA Volume/Volume Down",
          "GBA Volume/Volume Up", "GBA Volume/Volume Toggle Mute", "GBA Window Size/1x",
          "GBA Window Size/2x", "GBA Window Size/3x", "GBA Window Size/4x",
          "USB Emulation Devices/Show Skylanders Portal", "USB Emulation Devices/Show Infinity Base"}))}

\* generate: RetroAchievements.ini.
DolphinAchievements == {
    Always(In("Achievements", {"Enabled", "AchievementsEnabled"})),
    When("option", In("Achievements", {"Username", "ApiToken", "HardcoreEnabled", "BadgesEnabled",
          "EncoreEnabled", "ProgressEnabled", "LeaderboardsEnabled", "RichPresenceEnabled",
          "UnofficialEnabled"}))}

\* generateControllerConfig: whether the wiimotes are real, played by pads or by guns.
DolphinWiimoteSource == {Always(In("WiimoteN", {"Source"}))}

\* write_dsu_client_config: the file is written when the service that serves the motion of the console
\* runs, and left as it is when not.
DolphinMotionClient == {When("option", In("Server", {"Enabled", "Entries"}))}

\* generateControllerConfig_emulatedwiimotes: the extension the name of the game or the option asks for,
\* with its buttons.
DolphinExtensions == {
    When("game", In("WiimoteN", {
        "Extension", "uDraw/Touch/Pressure", "TaTaCon/Center/Left", "Guitar/Frets/Green",
        "Drums/Pads/Red", "Drawsome/Touch/Pressure", "Turntable/Buttons/Green Left",
        "Classic/Buttons/X", "Classic/Triggers/L"}))}

\* generateControllerConfig_emulatedwiimotes: the wiimote held sideways, with pointer, swing, tilt and
\* nunchuk.
DolphinWiimoteMoves == {
    When("game", In("WiimoteN", {
        "Options/Sideways Wiimote", "Shake/Z", "IR/Up", "IR/Relative Input Hold", "Swing/Up",
        "Tilt/Forward", "Tilt/Modifier", "Nunchuk/Buttons/C", "Nunchuk/Stick/Up",
        "Nunchuk/Swing/Forward"}))}

\* generateControllerConfig_gamecube: the buttons of a pad, which a file beside the game may change.
DolphinGamecubePads == {
    When("players", In("GCPadN", {
        "Buttons/A", "Buttons/Z", "Triggers/L", "D-Pad/Up", "Main Stick/Up", "C-Stick/Up",
        "Main Stick/Dead Zone", "Rumble/Motor"}))}

\* generateControllerConfig_triforce: a pad as an arcade machine has it.
DolphinTriforcePads == {
    When("players", In("GCPadN", {
        "Triforce/Service", "Triforce/Coin", "Triforce/Test", "Buttons/A", "Triggers/L"}))}

\* generateControllerConfig_realwiimotes: wiimotes of its own, and the balance board.
DolphinRealWiimotes == {Always({<<"WiimoteN", "Source">>, <<"BalanceBoard", "Source">>})}

\* generateControllerConfig_guns: a wiimote for each gun, as the game maps its buttons, and the unused
\* ones.
DolphinGuns == {
    When("players", In("WiimoteN", {
        "Extension", "Device", "Buttons/A", "Tilt/Forward", "Shake/Z", "Nunchuk/Buttons/C",
        "IR/Up", "Rumble/Motor"}))}

\* generateControllerConfig_any: the device of each pad, and where its buttons come from.
DolphinPadDevice == {When("players", In("GCPadN", {"Device"}) \cup In("WiimoteN", {"Device"}))}

\* generateControllerConfig_wheel.
DolphinWheel == {
    When("players", In("GCPadN", {
        "Rumble/Motor", "Rumble/Motor/Range", "Main Stick/Dead Zone", "Buttons/A",
        "Triggers/L-Analog", "Main Stick/Up"}))}

\* generateControllerConfig_any_auto: the buttons of a pad, its motion, the mouse for a pointer and how
\* sensitive it all is.
DolphinPadButtons == {
    When("players", In("WiimoteN", {
        "IMUGyroscope/Pitch Up", "IMUAccelerometer/Left", "IMUIR/Recenter", "IR/Up",
        "Rumble/Motor", "Main Stick/Dead Zone", "IR/Dead Zone", "IR/Up/Range", "IR/Auto-Hide",
        "IR/Relative Input", "Main Stick/Gate Size"}))}

\* generateControllerConfig_any_from_profiles: or all that the profile the user made for the pad says.
DolphinPadProfiles ==
    {When("players", In("GCPadN", {"of the profile"}) \cup In("WiimoteN", {"of the profile"}))}

\* CemuConfig: the paths, the hotkeys, the windows and the second screen. Elements are found by name
\* anywhere below their parent.
CemuWindows == {
    Always(In("content", {"mlc_path", "check_update", "gp_download", "logflag", "advanced_ppc_logging",
          "use_discord_presence", "fullscreen_menubar", "vk_warning", "fullscreen", "save_screenshot",
          "Hotkeys", "console_language", "window_position", "window_size", "open_pad", "pad_position",
          "pad_size", "GamePaths"}) \cup In("Hotkeys", {"ExitFullscreen", "ToggleFullscreen",
          "TakeScreenshot", "ToggleFastForward", "ExitApplication"})
      \cup In("window_position", {"x", "y"}) \cup In("window_size", {"x", "y"})
      \cup In("pad_position", {"x", "y"}) \cup In("pad_size", {"x", "y"}))}

\* CemuConfig: the picture, what is shown over it, and the sound. "Don't change the config setting": the
\* device the user chose stays, and so does an earlier launch's.
CemuPicture == {
    Always(In("GamePaths", {"Entry"}) \cup In("content", {"Graphic", "Audio"})
      \cup In("Graphic", {"api", "AsyncCompile", "VSync", "UpscaleFilter", "DownscaleFilter",
          "FullscreenScaling", "Overlay", "Notification"}) \cup In("Overlay", {"Position", "TextColor",
          "TextScale", "FPS", "DrawCalls", "CPUUsage", "CPUPerCoreUsage", "RAMUsage", "VRAMUsage"})
      \cup In("Notification", {"Position", "TextColor", "TextScale", "ControllerProfiles",
          "ControllerBattery", "ShaderCompiling", "FriendService"}) \cup In("Audio", {"api",
          "TVChannels", "TVVolume"})),
    When("host", In("Graphic", {"device"})),
    When("option", In("Audio", {"TVDevice"}))}

\* generateControllerConfig: the files of all players are deleted, then one is made for each who is
\* there.
CemuPads == {
    Always({"type", "api", "uuid", "display_name", "rumble", "axis", "mappings"}),
    When("players", {"device_type", "motion", "ip", "port"})}

\* setMupenConfig. What the user sets under mupen64plus. comes last, but only where the speed is not
\* shown.
MupenSettings == {
    Always(In("Core", {"Version", "ScreenshotPath", "SaveStatePath", "SaveSRAMPath", "SharedDataPath",
          "SaveFilenameFormat", "DisableExtraMem", "AutoStateSlotIncrement"})
      \cup In("Audio-SDL", {"AUDIO_SYNC", "PRIMARY_BUFFER_SIZE", "PRIMARY_BUFFER_TARGET",
          "SECONDARY_BUFFER_SIZE"}) \cup In("Video-General", {"Version", "ScreenWidth", "ScreenHeight",
          "Fullscreen", "VerticalSync"}) \cup In("Video-Rice", {"Version", "Mipmapping",
          "AnisotropicFiltering", "MultiSampling", "LoadHiResTextures", "TextureEnhancement", "ShowFPS"})
      \cup In("Video-Glide64mk2", {"Version", "adjust_aspect", "aspect", "filtering", "wrpAnisotropic",
          "wrpAntiAliasing", "ghq_hirs", "autoframeskip", "maxframeskip", "fb_read_always", "show_fps"})
      \cup In("Video-GLideN64", {"AspectRatio"}) \cup In("64DD", {"IPL-ROM", "Disk"})),
    When("option", In("Core", {"CurrentStateSlot"}))}

\* cleanHotKeyConfig: only where the file has the section.
MupenKeys == {
    Over(In("CoreEvents", {"Version", "Joy Mapping Stop", "Joy Mapping Save State",
          "Joy Mapping Load State", "Joy Mapping Screenshot", "Joy Mapping Increment Slot",
          "Joy Mapping Fast Forward", "Joy Mapping Reset", "Joy Mapping Pause"}))}

\* fillIniPlayer, for the pads that are there.
MupenPads == {
    When("players", In("Input-SDL-ControlN", {
        "Version", "mode", "device", "name", "plugged", "plugin", "AnalogDeadzone", "AnalogPeak",
        "mouse", "Mempak switch", "Rumblepak switch", "A Button", "DPad U", "X Axis"}))}

\* cleanPlayer, for the others but the fourth: the range ends one short of it, and its section keeps
\* what it had.
MupenNoPad == {When("players", In("Input-SDL-ControlN", {"Version", "plugged"}))}

\* defineControllerKeys, setControllerLine: what a pad's buttons are called, by the list of the system
\* and by what the pad lacks.
MupenButtons == {
    When("players", In("Input-SDL-ControlN", {"Z Trig", "C Button R", "Y Axis", "L Trig"}))}

\* generate: config.json. The profile of the pads is written over when there is one; the default profile
\* is mended when it is incomplete.
GopherSettings == {
    Made(In("default", {"everything"})),
    Always(In("video", {"upscale", "integer_scaling", "widescreen", "crt", "ssaa", "fullscreen", "vsync"})
      \cup In("emulation", {"overclock", "disable_expansion_pak", "usb", "rewind"})
      \cup In("input", {"emulate_vru", "gb_rom_path", "gb_ram_path", "controller_assignment",
          "controller_enabled", "input_profile_binding"})),
    Seed(In("config", {"recent_roms"}))}

\* _default_profile: a profile for the keyboard.
GopherProfile == {
    Seed(In("input", {"input_profiles.default"}))}

\* _batocera_profile: the profile of the first pad, by what SDL numbers its buttons.
GopherPad == {
    When("players", In("input", {"input_profiles.batocera"}))}

\* _write_retroachievements_config.
GopherAchievements == {
    Always({"username", "token", "enabled", "hardcore", "challenge", "leaderboard",
            "rich_presence"})}

\* writeAZAHARConfig: the screens, the console and the window; each shortcut has four keys.
AzaharScreens == {
    Always(Chosen("Layout", {"custom_layout", "swap_screen", "layout_option", "large_screen_proportion"})
      \cup Chosen("System", {"is_new_3ds", "region_value"}) \cup Chosen("UI", {"fullscreen",
          "displayTitleBars", "firstStart", "hideInactiveMouse", "enable_discord_presence",
          "calloutFlags", "confirmClose", "Shortcuts\\Context", "Shortcuts\\KeySeq"}))}

\* writeAZAHARConfig: the renderer and the textures.
AzaharPicture == {
    Always(Chosen("UI", {"Paths\\screenshotPath"})
      \cup Chosen("Miscellaneous", {"check_for_update_on_start"})
      \cup Chosen("Renderer", {"use_hw_renderer", "use_hw_shader", "shaders_accurate_mul", "graphics_api",
          "use_vsync_new", "resolution_factor", "async_shader_compilation", "async_presentation",
          "use_frame_limit"}) \cup In("Renderer", {"use_shader_jit", "use_hw_shader_jit\\default"})
      \cup Chosen("WebService", {"enable_telemetry"})
      \cup Chosen("Utility", {"use_disk_shader_cache", "custom_textures", "preload_textures"})),
    When("option", Chosen("Renderer", {"physical_device"})
      \cup Chosen("Utility", {"async_custom_loading"}))}

\* writeAZAHARConfig: the profile is made once; the buttons of the first pad and the motion of the
\* console are written into it when they are there.
AzaharPads == {
    Seed(Chosen("Controls", {"profile", "profiles\\1\\name", "profiles\\size"})),
    When("players", Chosen("Controls", {
        "profiles\\1\\button_a", "profiles\\1\\circle_pad", "profiles\\1\\c_stick"})),
    When("option", Chosen("Controls", {"profiles\\1\\motion_device"}))}

\* generate: the tables made anew, which take the place of those of the file as a whole.
MelondsTables == {
    Always({"MouseHide", "LastBIOSFolder", "PauseLostFocus", "LastROMFolder", "SavestatePath",
            "CheatFilePath", "SaveFilePath", "MouseHideSeconds", "DS", "DLDI", "DSi", "Emu",
            "Instance0", "3D", "Screen"})}

\* generate: what the options and the first pad put into those tables, and the update of the file's.
MelondsChoices == {Always({"LimitFPS", "RA", "Instance0", "3D", "Screen", "Emu"})}

\* generate: drastic.cfg, opened for writing before anything else of it is worked out.
DrasticSettings == {
    Always({"enable_sound", "compress_savestates", "savestate_snapshot", "firmware.username",
            "firmware.language", "firmware.favorite_color", "firmware.birthday_month",
            "firmware.birthday_day", "enable_cheats", "show_frame_counter", "rtc_system_time",
            "use_rtc_custom_time", "rtc_custom_time", "frameskip_type", "frameskip_value",
            "safe_frameskip", "disable_edge_marking", "fix_main_2d_screen", "hires_3d", "threaded_3d",
            "screen_orientation", "screen_scaling"})}

\* configurePads: the keys of the keyboard, and none for the pad.
DrasticPads == {Always({"controls_a", "controls_b"})}

\* _default_settings_blob, _load_or_default_settings: the defaults, when there is no file or it is
\* short.
SkyemuDefaults == {
    Seed({"draw_debug_menu", "volume", "theme", "gb_palette", "ghosting", "color_correction",
          "screen_shader", "screen_rotation", "auto_hide_touch_controls", "touch_controls_opacity",
          "always_show_menubar", "language", "touch_controls_scale", "touch_controls_show_turbo",
          "save_to_path", "force_dmg_mode", "gba_color_correction_mode", "http_control_server_port",
          "http_control_server_enable", "avoid_overlaping_touchscreen", "custom_font_scale",
          "hardcore_mode", "draw_challenge_indicators", "draw_progress_indicators",
          "draw_leaderboard_trackers", "draw_notifications", "gui_scale_factor",
          "only_one_notification", "enable_download_cache", "nds_layout",
          "touch_screen_show_button_labels"})}

\* generate: the four fields of the user's options.
SkyemuSettings == {
    Always({"integer_scaling", "settings_file_version", "show_screen_bezel", "stretch_to_fit"})}

\* The files, and how each is read.
NintendoUnits ==
    "dolphin-qt" :> Strict("Qt.ini", DolphinQt)
 @@ "dolphin" :> Strict("Dolphin.ini", DolphinMachine \cup DolphinPorts)
 @@ "dolphin-picture" :> Strict("GFX.ini", DolphinPicture)
 @@ "dolphin-hotkeys" :> Anew("Hotkeys.ini", DolphinHotkeys)
 @@ "dolphin-achievements" :> Anew("RetroAchievements.ini", DolphinAchievements)
 @@ "dolphin-motion" :> Tolerant("DSUClient.ini", DolphinMotionClient)
 @@ "dolphin-wiimotes" :> Anew("WiimoteNew.ini", DolphinWiimoteSource \cup DolphinRealWiimotes \cup
        DolphinExtensions \cup DolphinWiimoteMoves \cup DolphinGuns \cup DolphinPadDevice \cup
        DolphinPadButtons \cup DolphinPadProfiles)
 @@ "dolphin-pads" :> Anew("GCPadNew.ini", DolphinGamecubePads \cup DolphinTriforcePads \cup
        DolphinPadDevice \cup DolphinWheel \cup DolphinPadProfiles)
 @@ "cemu" :> Tolerant("cemu/settings.xml", CemuWindows \cup CemuPicture)
 @@ "cemu-pads" :> Anew("controllerN.xml", CemuPads)
 @@ "mupen" :> Masked(Strict("mupen64plus.cfg", MupenSettings \cup MupenKeys \cup MupenPads \cup
        MupenNoPad \cup MupenButtons))
 @@ "gopher64" :> Strict("gopher64/config.json", GopherSettings \cup GopherProfile \cup GopherPad)
 @@ "gopher64-achievements" :> Anew("retroachievements.json", GopherAchievements)
 @@ "azahar" :> Strict("azahar/qt-config.ini", AzaharScreens \cup AzaharPicture \cup AzaharPads)
 @@ "melonds" :> Strict("melonDS.toml", MelondsTables \cup MelondsChoices)
 @@ "drastic" :> Anew("drastic.cfg", DrasticSettings \cup DrasticPads)
 @@ "skyemu" :> Tolerant("user_settings.bin", SkyemuDefaults \cup SkyemuSettings)
=============================================================================
