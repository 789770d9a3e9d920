------------------------------ MODULE SonyRules -----------------------------
(***************************************************************************)
(* The emulators of Sony's consoles: PCSX2, AetherSX2, ARMSX2, DuckStation *)
(* and its legacy build, RPCS3, shadPS4, Vita3K, PPSSPP and Play!. Where a *)
(* pad has one key for each of its buttons, the tables have one key of     *)
(* each sort; N is a player, or the port of a console.                     *)
(***************************************************************************)
EXTENDS ConfigRules

\* configureINI: the window, the folders and the processors.
Pcsx2Machine == {
    Always(In("UI", {"SettingsVersion", "InhibitScreensaver", "ConfirmShutdown", "StartPaused",
          "PauseOnFocusLoss", "StartFullscreen", "HideMouseCursor", "RenderToSeparateWindow",
          "HideMainWindowWhenRunning", "DoubleClickTogglesFullscreen"})
      \cup In("Folders", {"Bios", "Snapshots", "Savestates", "MemoryCards", "Logs", "Cheats",
          "CheatsWS", "CheatsNI", "Cache", "Textures", "InputProfiles", "Videos"})
      \cup In("EmuCore", {"EnableDiscordPresence", "EnableFastBoot", "EnableCheats",
          "EnableWideScreenPatches", "EnableNoInterlacingPatches"})
      \cup In("EmuCore/Speedhacks", {"EECycleRate", "EECycleSkip", "vuThread", "vu1Instant", "fastCDVD"})),
    Gone(In("Folders", {"SaveStates"}))}

\* configureINI: whoever no longer has achievements leaves his name and token in the file.
Pcsx2Achievements == {
    Always(In("Achievements", {"Enabled", "Notifications", "LeaderboardNotifications", "SoundEffects",
          "InfoSound", "UnlockSound", "LBSubmitSound", "Overlays", "LBOverlays", "UnofficialTestMode",
          "TestMode"})),
    When("option", In("Achievements", {"Username", "Token", "LoginTimestamp", "ChallengeMode",
          "PrimedIndicators", "RichPresence", "Leaderboards", "EncoreMode", "SpectatorMode"}))}

\* configureINI: the picture and what is shown over it.
Pcsx2Picture == {
    Always(In("EmuCore/GS", {"Renderer", "AspectRatio", "VsyncEnable", "upscale_multiplier", "fxaa",
          "FMVAspectRatioSwitch", "mipmap_hw", "TriFilter", "MaxAnisotropy", "dithering_ps2",
          "texture_preloading", "deinterlace_mode", "HWDownloadMode", "pcrtc_antiblur",
          "IntegerScaling", "accurate_blending_unit", "filter", "linear_present_mode",
          "OsdShowMessages", "OsdMessagesPos", "OsdPerformancePos", "OsdShowSpeed", "OsdShowFPS",
          "OsdShowVPS", "OsdShowResolution", "OsdShowGSStats", "OsdShowCPU", "OsdShowGPU",
          "OsdShowGPUDebug", "OsdShowFrameTimes", "OsdShowHardwareInfo", "OsdShowVersion",
          "OsdShowSettings"}) \cup In("EmuCore", {"TVShader", "AutoIncrementSlot", "SaveStateOnShutdown"})),
    When("option", In("EmuCore/GS", {"Adapter"}))}

\* configureINI: the sources of input and the hotkeys.
Pcsx2Hotkeys == {
    Always(In("InputSources", {"Keyboard", "Mouse", "SDL"})
      \cup In("Hotkeys", {"ToggleFullscreen", "CycleAspectRatio", "CycleInterlaceMode",
          "CycleMipmapMode", "GSDumpMultiFrame", "Screenshot", "GSDumpSingleFrame",
          "ToggleSoftwareRendering", "ZoomIn", "ZoomOut", "InputRecToggleMode", "LoadStateFromSlot",
          "SaveStateToSlot", "NextSaveStateSlot", "PreviousSaveStateSlot", "OpenPauseMenu",
          "ToggleFrameLimit", "TogglePause", "ToggleSlowMotion", "ToggleTurbo", "HoldTurbo"}))}

\* configureINI: the guns. What earlier guns had is taken out first; of earlier wheels only the type of
\* a Driving Force Pro is, so that another wheel stays plugged in.
Pcsx2Guns == {
    Either({"USB1", "USB2"} \X {"guncon2_Start", "guncon2_C"}),
    Either(In("USB2", {"guncon2_numdevice"})),
    Gone(In("USB1", {"guncon2_numdevice"})),
    Over({"USB1", "USB2"} \X {"guncon2_cursor_path"}),
    When("option", {"USB1", "USB2"} \X {"guncon2_cursor_color"}),
    When("players", {"USB1", "USB2"} \X {"Type"}),
    Always(In("EmuCore/GS", {"LoadTextureReplacements"}))}

\* configureINI: the wheels, where the game or the option has the emulator see one.
Pcsx2Wheels == {
    When("players", {"USB1", "USB2"} \X {
        "Type", "Pad_subtype", "Pad_FFDevice", "Pad_Start", "Pad_SteeringLeft",
        "Pad_SteeringRight", "Pad_Brake", "Pad_Throttle"})}

\* configureINI: the pads. Their sections are removed first "to avoid phantom controllers".
Pcsx2Pads == {
    Always(In("Pad", {"MultitapPort1", "MultitapPort2"}) \cup In("GameList", {"RecursivePaths"})),
    Either(In("PadN", {"Type", "InvertL", "Deadzone", "AxisScale", "TriggerScale", "LargeMotorScale",
          "PressureModifier", "Up", "Cross", "L1", "LUp", "Analog", "LargeMotor"})),
    When("players", In("InputSources", {"SDLControllerEnhancedMode"}))}

\* configureReg.
Pcsx2Registry == {
    Always({"DocumentsFolderMode", "CustomDocumentsFolder", "UseDefaultSettingsFolder",
            "SettingsFolder", "Install_Dir", "RunWizard"})}

\* configureAudio: "Keep the custom files".
Pcsx2Audio == {
    Made({<<"MIXING", "Interpolation">>, <<"MIXING", "Disable_Effects">>,
          <<"OUTPUT", "Output_Module">>, <<"PORTAUDIO", "HostApi">>, <<"PORTAUDIO", "Device">>,
          <<"SDL", "HostApi">>})}

\* generate: the window, the picture, the processors and the sound.
Aethersx2Machine == {
    Always(In("UI", {"ConfirmShutdown", "InhibitScreensaver", "StartPaused", "PauseOnFocusLoss",
          "StartFullscreen", "HideMouseCursor", "RenderToSeparateWindow", "HideMainWindowWhenRunning",
          "DoubleClickTogglesFullscreen"}) \cup In("EmuCore/GS", {"Renderer", "upscale_multiplier",
          "MaxAnisotropy", "fxaa", "mipmap_hw", "TriFilter", "texture_preloading",
          "accurate_blending_unit", "AspectRatio", "FMVAspectRatioSwitch", "filter",
          "linear_present_mode", "VsyncEnable", "deinterlace_mode", "dithering_ps2", "IntegerScaling",
          "pcrtc_antiblur", "LoadTextureReplacements", "OsdShowMessages", "OsdMessagesPos",
          "OsdPerformancePos", "OsdShowFPS", "HWDownloadMode"})
      \cup In("EmuCore/Speedhacks", {"EECycleRate", "EECycleSkip", "vuThread", "vu1Instant", "fastCDVD"})
      \cup In("EmuCore", {"EnableFastBoot", "EnableWideScreenPatches", "EnableNoInterlacingPatches",
          "EnableCheats", "EnableGameFixes", "AutoIncrementSlot", "SaveStateOnShutdown"})
      \cup In("SPU2/Mixing", {"Interpolation"}) \cup In("SPU2/Output", {"Latency"}))}

\* generate: the achievements, the folders, the cards and the hotkeys.
Aethersx2Files == {
    Always(In("Achievements", {"Enabled", "Notifications", "SoundEffects", "TestMode"})
      \cup In("Folders", {"Bios", "Savestates", "MemoryCards", "Snapshots", "Cheats", "CheatsWS",
          "CheatsNI", "Cache", "Textures", "InputProfiles", "Logs", "Videos"})
      \cup In("MemoryCards", {"Slot1_Enable", "Slot1_Filename", "Slot2_Enable", "Slot2_Filename",
          "Multitap1_Slot2_Enable", "Multitap1_Slot2_Filename", "Multitap1_Slot3_Enable",
          "Multitap1_Slot3_Filename", "Multitap1_Slot4_Enable", "Multitap1_Slot4_Filename",
          "Multitap2_Slot2_Enable", "Multitap2_Slot2_Filename", "Multitap2_Slot3_Enable",
          "Multitap2_Slot3_Filename", "Multitap2_Slot4_Enable", "Multitap2_Slot4_Filename"})
      \cup In("Logging", {"EnableSystemConsole", "EnableFileLogging", "EnableTimestamps",
          "EnableVerbose", "EnableEEConsole", "EnableIOPConsole", "EnableInputRecordingLogs",
          "EnableControllerLogs"}) \cup In("InputSources", {"Keyboard", "Mouse", "Sensor", "SDL",
          "SDLControllerEnhancedMode"}) \cup In("Hotkeys", {"ToggleFullscreen", "CycleAspectRatio",
          "CycleInterlaceMode", "CycleMipmapMode", "GSDumpMultiFrame", "Screenshot",
          "GSDumpSingleFrame", "ToggleSoftwareRendering", "ZoomIn", "ZoomOut", "InputRecToggleMode",
          "LoadStateFromSlot", "SaveStateToSlot", "NextSaveStateSlot", "PreviousSaveStateSlot",
          "OpenPauseMenu", "ToggleFrameLimit", "TogglePause", "ToggleSlowMotion", "ToggleTurbo"})),
    When("host", In("Filenames", {"BIOS"})),
    When("option", In("Achievements", {"Username", "Token", "LoginTimestamp", "ChallengeMode",
          "PrimedIndicators", "RichPresence", "Leaderboards", "EncoreMode", "UnofficialTestMode"}))}

\* generate: the pads. A port without one is said to have none and keeps its buttons.
Aethersx2Pads == {
    Always(In("Pad", {"MultitapPort1", "MultitapPort2", "PointerXScale", "PointerYScale"})
      \cup In("USB1", {"Type"}) \cup In("USB2", {"Type"}) \cup In("PadN", {"Type"})),
    When("players", In("PadN", {"InvertL", "Deadzone", "AxisScale", "TriggerScale", "LargeMotorScale",
          "PressureModifier", "Up", "Cross", "L1", "LUp", "LargeMotor"}))}

\* _prepare_armsx2_settings. The renderer of an earlier launch stays where none is chosen.
Armsx2Settings == {
    Always(In("UI", {"SettingsVersion", "SetupWizardIncomplete", "Fullscreen", "ConfirmShutdown",
          "InhibitScreensaver", "StartPaused", "PauseOnFocusLoss", "StartFullscreen", "HideMouseCursor",
          "RenderToSeparateWindow", "HideMainWindowWhenRunning", "DoubleClickTogglesFullscreen"})
      \cup In("EmuCore/GS", {"DisableFramebufferFetch", "OverrideTextureBarriers",
          "DisableMailboxPresentation"}) \cup In("Achievements", {"Enabled", "Notifications",
          "LeaderboardNotifications", "SoundEffects", "InfoSound", "UnlockSound", "LBSubmitSound",
          "TestMode"}) \cup In("Folders", {"Bios", "Snapshots", "Savestates", "MemoryCards", "Logs",
          "Cheats", "CheatsWS", "CheatsNI", "Cache", "Textures", "InputProfiles", "Videos"})
      \cup In("Logging", {"EnableSystemConsole", "EnableFileLogging"})),
    When("host", In("Filenames", {"BIOS"})),
    When("option", In("EmuCore/GS", {"Renderer"}) \cup In("Achievements", {"InfoSoundName",
          "UnlockSoundName", "LBSubmitSoundName", "Username", "Token", "LoginTimestamp",
          "ChallengeMode", "PrimedIndicators", "Overlays", "RichPresence", "Leaderboards", "LBOverlays",
          "EncoreMode", "SpectatorMode", "UnofficialTestMode"})),
    Seed(In("EmuCore/GS", {"Renderer"}))}

\* _normalize_controller_bindings: a button the user gave to a pad is called by its new name.
Armsx2Faces == {Over(In("PadN", {"Triangle", "Circle", "Cross", "Square"}))}

\* generate: the emulator, the ports, the console and its BIOS. Without a BIOS the launch fails before
\* anything is written.
DuckstationMachine == {
    Always(In("Main", {"SettingsVersion", "InhibitScreensaver", "StartPaused", "StartFullscreen",
          "PauseOnFocusLoss", "PauseOnMenu", "ConfirmPowerOff", "ApplyGameSettings",
          "SetupWizardIncomplete", "EmulationSpeed", "SyncToHostRefreshRate", "RewindEnable",
          "RewindFrequency", "EnableDiscordPresence", "Language"})
      \cup In("ControllerPorts", {"ControllerSettingsMigrated", "MultitapMode", "PointerXScale",
          "PointerYScale", "PointerXInvert", "PointerYInvert"}) \cup In("Console", {"Region",
          "EnableCheats"}) \cup In("BIOS", {"SearchDirectory", "PatchFastBoot"})
      \cup In("CPU", {"ExecutionMode"})),
    When("host", In("BIOS", {"PathNTSCU", "PathPAL", "PathNTSCJ"})),
    When("option", In("Main", {"RewindSaveSlots"}))}

\* generate: the picture, the sound, the achievements and the folders.
DuckstationPicture == {
    Always(In("GPU", {"Renderer", "PerSampleShading", "Multisamples", "ThreadedPresentation",
          "ResolutionScale", "WidescreenHack", "ForceNTSCTimings", "TextureFilter", "PGXPEnable",
          "PGXPCulling", "PGXPTextureCorrection", "PGXPPreserveProjFP", "TrueColor", "ScaledDithering",
          "DisableInterlacing"}) \cup In("Display", {"AspectRatio", "VSync", "CropMode",
          "DisplayAllFrames", "ShowOSDMessages", "IntegerScaling", "LinearFiltering", "Stretch"})
      \cup In("Audio", {"StretchMode"}) \cup In("GameList", {"RecursivePaths"})
      \cup In("Cheevos", {"Enabled"})
      \cup In("TextureReplacements", {"EnableVRAMWriteReplacements", "PreloadTextures"})
      \cup In("InputSources", {"SDL", "SDLControllerEnhancedMode", "Evdev", "XInput", "RawInput"})
      \cup In("MemoryCards", {"Directory"}) \cup In("Folders", {"Cache", "Screenshots", "SaveStates",
          "Cheats"})),
    When("option", In("Cheevos", {"Username", "Token", "ChallengeMode", "RichPresence",
          "PrimedIndicators", "Leaderboards", "UnofficialTestMode"}))}

\* generate: the pads, whose sections are made anew for all eight, and the hotkeys.
DuckstationPads == {
    Always(In("PadN", {"Type"}) \cup In("ControllerPorts", {"MultitapMode"})
      \cup In("Hotkeys", {"FastForward", "Reset", "LoadSelectedSaveState", "SaveSelectedSaveState",
          "SelectPreviousSaveStateSlot", "SelectNextSaveStateSlot", "Screenshot", "Rewind",
          "OpenPauseMenu", "ChangeDisc"}) \cup In("CDROM", {"AllowBootingWithoutSBIFile"})
      \cup In("UI", {"UnofficialBuildWarningConfirmed"})),
    Either(In("PadN", {"Up", "Triangle", "L1", "LLeft", "SmallMotor", "VibrationBias", "Analog",
          "SteeringLeft", "Trigger", "ShootOffscreen", "CrosshairScale", "RelativeMouseMode"})),
    Gone(In("Hotkeys", {"OpenQuickMenu"}))}

\* generate: the emulator, the ports, the console and its BIOS. Without a BIOS the launch fails before
\* anything is written.
DuckstationLegacyMachine == {
    Always(In("Main", {"SettingsVersion", "InhibitScreensaver", "StartPaused", "StartFullscreen",
          "PauseOnFocusLoss", "PauseOnMenu", "ConfirmPowerOff", "ApplyGameSettings", "EmulationSpeed",
          "SyncToHostRefreshRate", "RewindEnable", "RewindFrequency", "EnableDiscordPresence",
          "Language"}) \cup In("ControllerPorts", {"ControllerSettingsMigrated", "MultitapMode",
          "PointerXScale", "PointerYScale", "PointerXInvert", "PointerYInvert"})
      \cup In("Console", {"Region"}) \cup In("BIOS", {"SearchDirectory", "PatchFastBoot"})
      \cup In("CPU", {"ExecutionMode"})),
    When("host", In("BIOS", {"PathNTSCU", "PathPAL", "PathNTSCJ"})),
    When("option", In("Main", {"RewindSaveSlots"}))}

\* generate: the picture, the sound, the achievements and the folders.
DuckstationLegacyPicture == {
    Always(In("GPU", {"Renderer", "PerSampleShading", "Multisamples", "ThreadedPresentation",
          "ResolutionScale", "WidescreenHack", "ForceNTSCTimings", "TextureFilter", "PGXPEnable",
          "PGXPCulling", "PGXPTextureCorrection", "PGXPPreserveProjFP", "TrueColor", "ScaledDithering",
          "DisableInterlacing"}) \cup In("Display", {"AspectRatio", "VSync", "CropMode",
          "DisplayAllFrames", "ShowOSDMessages", "IntegerScaling", "LinearFiltering", "Stretch"})
      \cup In("Audio", {"StretchMode"}) \cup In("GameList", {"RecursivePaths"})
      \cup In("Cheevos", {"Enabled"})
      \cup In("TextureReplacements", {"EnableVRAMWriteReplacements", "PreloadTextures"})
      \cup In("InputSources", {"SDL", "SDLControllerEnhancedMode", "Evdev", "XInput", "RawInput"})
      \cup In("MemoryCards", {"Directory"}) \cup In("Folders", {"Cache", "Screenshots", "SaveStates",
          "Cheats"})),
    When("option", In("Cheevos", {"Username", "Token", "ChallengeMode", "RichPresence",
          "PrimedIndicators", "Leaderboards"}))}

\* generate: the pads, whose sections are made anew for all eight, and the hotkeys.
DuckstationLegacyPads == {
    Always(In("PadN", {"Type"}) \cup In("ControllerPorts", {"MultitapMode"})
      \cup In("Hotkeys", {"FastForward", "Reset", "LoadSelectedSaveState", "SaveSelectedSaveState",
          "SelectPreviousSaveStateSlot", "SelectNextSaveStateSlot", "Screenshot", "Rewind",
          "OpenPauseMenu", "ChangeDisc"}) \cup In("CDROM", {"AllowBootingWithoutSBIFile"})),
    Either(In("PadN", {"Up", "Triangle", "L1", "LLeft", "SmallMotor", "VibrationBias", "Analog",
          "SteeringLeft", "Trigger", "ShootOffscreen", "A", "RelativeMouseMode"})),
    Gone(In("Hotkeys", {"OpenQuickMenu"}))}

\* generate: CurrentSettings.ini.
Rpcs3Window == {
    Always(In("main_window", {"confirmationBoxExitGame", "infoBoxEnabledInstallPUP",
          "infoBoxEnabledWelcome", "confirmationBoxBootGame", "infoBoxEnabledInstallPKG"})
      \cup In("Meta", {"checkUpdateStart", "useRichPresence"})
      \cup In("GSFrame", {"disableMouse"}))}

\* generate: the processors and the backend of the picture.
Rpcs3Core == {
    Always(In("Core", {"PPU Decoder", "SPU Decoder", "SPU XFloat Accuracy", "SPU Cache",
          "Preferred SPU Threads", "SPU loop detection", "SPU Block Size", "Max CPU Preempt Count",
          "Sleep Timers Accuracy", "RSX FIFO Accuracy"}) \cup In("Video", {"Renderer", "Aspect ratio",
          "Shader Mode", "Shader Precision", "VSync Mode"})),
    When("host", In("Video.Vulkan", {"Adapter", "VRAM allocation limit (MB)",
          "Use Re-BAR for GPU uploads"})),
    Gone(In("Core", {"XFloat Accuracy"}) \cup In("Video", {"VSync"}))}

\* generate: the picture.
Rpcs3Picture == {
    Always(In("Video", {"Stretch To Display Area", "Frame limit", "Second Frame Limit",
          "Write Color Buffers", "Write Depth Buffer", "Read Color Buffers", "Read Depth Buffer",
          "Disable Vertex Cache", "Strict Rendering Mode", "Anisotropic Filter Override", "MSAA",
          "Accurate ZCULL stats", "Relaxed ZCULL Sync", "Resolution", "Resolution Scale",
          "Output Scaling Mode", "Shader Compiler Threads", "Multithreaded RSX",
          "Asynchronous Texture Streaming 2", "Force CPU Blit", "Disable ZCull Occlusion Queries",
          "Driver Wake-Up Delay", "3D Display Mode", "Exclusive Fullscreen Mode"}))}

\* generate: the sound, the console, what is plugged into it and the window. The camera and the
\* controller of guns stay for games without.
Rpcs3Machine == {
    Always(In("Audio", {"Renderer", "Master Volume", "Audio Format", "Convert to 16 bit",
          "Enable Buffering", "Desired Audio Buffer Duration", "Enable Time Stretching",
          "Time Stretching Threshold"}) \cup In("System", {"License Area", "Language"})
      \cup In("Input/Output", {"Show move cursor", "Keyboard", "Load SDL GameController Mappings",
          "Mouse"}) \cup In("Miscellaneous", {"Exit RPCS3 when process finishes",
          "Start games in fullscreen mode", "Automatically start games after boot",
          "Pause emulation on RPCS3 focus loss", "Prevent display sleep while running games",
          "Show shader compilation hint", "Show PPU compilation hint", "Show trophy popups"})),
    When("players", In("Input/Output", {"Move", "Camera", "Camera type"}))}

\* _apply_rpcs3_database_choices: over all that, what the database of the emulator says of the game,
\* where that is asked for. Nothing takes it back for the next game.
Rpcs3Profile == {
    When("game", In("Core", {"PPU Decoder", "SPU Decoder", "SPU XFloat Accuracy", "SPU loop detection",
          "SPU Block Size", "Sleep Timers Accuracy", "Libraries Control", "Max SPURS Threads",
          "Accurate SPU DMA", "Disable SPU GETLLAR Spin Optimization", "Debug Console Mode",
          "Accurate RSX reservation access", "RSX FIFO Fetch Accuracy"})
      \cup In("Video", {"Frame limit", "Anisotropic Filter Override", "MSAA", "Accurate ZCULL stats",
          "Relaxed ZCULL Sync", "Shader Precision", "Shader Mode", "Write Color Buffers",
          "Write Depth Buffer", "Read Color Buffers", "Read Depth Buffer", "Strict Rendering Mode",
          "Disable Vertex Cache", "Multithreaded RSX", "Force CPU Blit",
          "Disable ZCull Occlusion Queries", "Handle RSX Memory Tiling",
          "Emulate Special Depth Comparison", "Vblank NTSC Fixup"})
      \cup In("Video.Vulkan", {"Asynchronous Texture Streaming"})
      \cup In("Audio", {"Audio Format", "Enable Buffering", "Enable Time Stretching"}))}

\* _write_active_input_config: the profile of all games; those the user gave to one game are kept.
Rpcs3ActiveInput == {Always({"global"})}

\* generateControllerConfig: the file of the pads, written anew with those that are there; a pad of Sony
\* may be left to its own handler, any other to that of the kernel.
Rpcs3OwnPads == {
    When("players", In("Player N Input", {
        "Handler", "Device", "Config/Left Stick Left", "Config/Start", "Config/Cross",
        "Config/Motion Sensor X", "Config/Enable Large Vibration Motor", "Config/Vendor ID",
        "Buddy Device"}))}

\* generateControllerConfig: a pad as SDL has it, its device named with the number of pads of that name
\* before it.
Rpcs3SdlPads == {
    When("players", In("Player N Input", {
        "Handler", "Device", "Config/Left Stick Left", "Config/Start", "Config/IR Nose",
        "Config/Pressure Intensity Button", "Config/Color Value R", "Config/Vendor ID",
        "Buddy Device"}))}

\* generate: the file, when there is none or it cannot be read.
Shadps4Defaults == {
    Made(In("General", {"isPS4Pro", "isTrophyPopupDisabled", "trophyNotificationDuration", "playBGM",
          "BGMvolume", "enableDiscordRPC", "logFilter", "logType", "userName", "updateChannel",
          "chooseHomeTab", "showSplash", "autoUpdate", "alwaysShowChangelog", "sideTrophy",
          "separateUpdateEnabled", "compatibilityEnabled", "checkCompatibilityOnStartup"})
      \cup In("Input", {"cursorState", "cursorHideTimeout", "backButtonBehavior", "useSpecialPad",
          "specialPadClass", "isMotionControlsEnabled", "useUnifiedInputConfig"})
      \cup In("GPU", {"screenWidth", "screenHeight", "nullGpu", "copyGPUBuffers", "dumpShaders",
          "patchShaders", "vblankDivider", "Fullscreen", "FullscreenMode", "allowHDR"})
      \cup In("Vulkan", {"gpuId", "validation", "validation_sync", "validation_gpu", "crashDiagnostic",
          "hostMarkers", "guestMarkers", "rdocEnable"}) \cup In("Debug", {"DebugDump", "CollectShader",
          "isSeparateLogFilesEnabled", "FPSColor"}) \cup In("Keys", {"TrophyKey"})
      \cup In("GUI", {"installDirs", "saveDataPath", "loadGameSizeEnabled", "addonInstallDir",
          "emulatorLanguage", "backgroundImageOpacity", "showBackgroundImage", "mw_width", "mw_height",
          "theme", "iconSize", "sliderPos", "iconSizeGrid", "sliderPosGrid", "gameTableMode",
          "geometry_x", "geometry_y", "geometry_w", "geometry_h", "pkgDirs", "elfDirs", "recentFiles"})
      \cup In("Settings", {"consoleLanguage"}))}

\* generate: what is set in config.toml.
Shadps4Settings == {
    Always(In("General", {"autoUpdate", "enableDiscordRPC", "userName", "isTrophyPopupDisabled",
          "trophyNotificationDuration", "sideTrophy", "isPS4Pro", "showSplash"})
      \cup In("GPU", {"Fullscreen", "FullscreenMode", "screenWidth", "screenHeight", "allowHDR",
          "copyGPUBuffers", "patchShaders", "fsrEnabled", "rcasEnabled", "presentMode",
          "vblankFrequency", "readbacksMode", "directMemoryAccess"})
      \cup In("GUI", {"addonInstallDir", "installDirs", "saveDataPath", "mw_width", "mw_height",
          "geometry_w", "geometry_h", "pkgDirs"}) \cup In("Vulkan", {"gpuId", "pipelineCacheEnable",
          "pipelineCacheArchive"}) \cup In("Input", {"useUnifiedInputConfig",
          "backgroundControllerInput", "isMotionControlsEnabled"})
      \cup In("Debug", {"showFpsCounter"}) \cup In("Log", {"enable"})
      \cup In("Settings", {"consoleLanguage"}))}

\* generate, _write_json_overrides: the same in config.json.
Shadps4Overrides == {
    Always(In("General", {"addon_install_dir", "discord_rpc_enabled", "home_dir", "install_dirs",
          "neo_mode", "show_fps_counter", "show_splash", "console_language",
          "trophy_notification_duration", "trophy_notification_side", "trophy_popup_disabled"})
      \cup In("Input", {"background_controller_input", "motion_controls_enabled",
          "use_unified_input_config"}) \cup In("GPU", {"copy_gpu_buffers",
          "direct_memory_access_enabled", "fsr_enabled", "full_screen", "full_screen_mode",
          "hdr_allowed", "patch_shaders", "present_mode", "rcas_enabled", "readbacks_mode",
          "vblank_frequency", "window_height", "window_width"}) \cup In("Log", {"enable"})
      \cup In("Vulkan", {"gpu_id", "pipeline_cache_archived", "pipeline_cache_enabled"}))}

\* generate: CurrentSettings.ini.
Vita3kWindow == {Always(In("MainWindow", {"warnAdminPrivileges"}))}

\* generate: config.yml, from the first of three files that can be read.
Vita3kSettings == {
    Always({"pref-path", "initial-setup", "show-welcome", "discord-rich-presence", "validation-layer",
            "backend-renderer", "resolution-multiplier", "enable-fxaa", "v-sync",
            "anisotropic-filtering", "enable-linear-filter", "screen-filter", "disable-surface-sync",
            "async-pipeline-compilation", "fullscreen_hd_res_pixel_perfect", "high-accuracy",
            "texture-cache", "shader-cache", "memory-mapping", "sys-lang"}),
    When("option", {"gpu-idx"})}

\* createPPSSPPConfig: the picture.
PpssppPicture == {
    Always(In("Graphics", {"GraphicsBackend", "InternalResolution", "SoftwareRenderer", "FullScreen",
          "VSync", "FrameSkip", "FrameSkipType", "AutoFrameSkip", "SkipBufferEffects",
          "DisableRangeCulling", "SkipGPUReadbackMode", "TextureBackoffCache", "SplineBezierQuality",
          "RenderDuplicateFrames", "InflightFrames", "HardwareTransform", "SoftwareSkinning",
          "HardwareTessellation", "TexScalingType", "TexScalingLevel", "TexDeposterize",
          "AnisotropyLevel", "TextureFiltering", "Smart2DTexFiltering", "ShowFPSCounter"})),
    When("option", In("Graphics", {"VulkanDevice"}))}

\* createPPSSPPConfig: the console, the achievements and the network, of which most is set only while it
\* is used. What the user sets under ppsspp. comes last.
PpssppMachine == {
    Always(In("Graphics", {"DisplayIntegerScale"}) \cup In("SystemParam", {"NickName", "EncryptSave",
          "MemStickSize"}) \cup In("General", {"FirstRun", "RewindFlipFrequency", "EnableCheats",
          "CheckForNewVersion", "StateSlot"}) \cup In("Upgrade", {"UpgradeMessage", "UpgradeVersion",
          "DismissedVersion"}) \cup In("Achievements", {"AchievementsChallengeMode",
          "AchievementsEnable"}) \cup In("Network", {"EnableWlan"})),
    When("option", In("Achievements", {"AchievementsUserName", "AchievementsEncoreMode",
          "AchievementsUnofficial", "AchievementsSoundEffects"})
      \cup In("Network", {"EnableAdhocServer", "proAdhocServer", "PortOffset", "EnableUPnP",
          "AdhocServerRelayMode", "ForcedFirstConnect", "InfrastructureAutoDNS"})),
    Seed(In("Network", {"PrimaryDNSServer"}))}

\* generateControllerConfig: the buttons of the first pad over those of a fixed file. A launch without a
\* pad does nothing to the file.
PpssppPad == {
    Always(In("ControlMapping", {
        "Up", "Cross", "An.Up", "RightAn.Left", "Rewind", "Fast-forward", "Save State",
        "Load State", "Previous Slot", "Next Slot", "Screenshot", "Pause"}))}

\* generate: config.xml.
PlaySettings == {
    Always({"ps2.arcaderoms.directory", "ui.showexitconfirmation", "ui.pausewhenfocuslost",
            "ui.showeecpuusage", "ps2.limitframerate", "renderer.widescreen", "system.language",
            "video.gshandler", "renderer.opengl.resfactor", "renderer.presentationmode",
            "renderer.opengl.forcebilineartextures"})}

\* generate: the file of the first two pads and guns, made anew.
PlayPads == {
    When("players", {"input.padN.analog.sensitivity", "input.padN.cross.bindingtarget1.deviceId",
        "input.padN.cross.bindingtarget1.keyId", "input.padN.cross.bindingtype",
        "input.padN.cross.povhatbinding.refvalue", "input.padN.circle.bindingtarget1.deviceId"})}

\* The files, and how each is read.
SonyUnits ==
    "pcsx2" :> Strict("PCSX2.ini", Pcsx2Machine \cup Pcsx2Achievements \cup Pcsx2Picture \cup
        Pcsx2Hotkeys \cup Pcsx2Guns \cup Pcsx2Wheels \cup Pcsx2Pads)
 @@ "pcsx2-registry" :> Anew("PCSX2-reg.ini", Pcsx2Registry)
 @@ "pcsx2-audio" :> Tolerant("spu2-x.ini", Pcsx2Audio)
 @@ "aethersx2" :> Strict("aethersx2/PCSX2.ini", Aethersx2Machine \cup Aethersx2Files \cup
        Aethersx2Pads)
 @@ "armsx2" :> Strict("armsx2/PCSX2.ini", Armsx2Settings \cup Armsx2Faces)
 @@ "duckstation" :> Strict("duckstation/settings.ini", DuckstationMachine \cup DuckstationPicture \cup
        DuckstationPads)
 @@ "duckstation-legacy" :> Strict("duckstation/settings.ini", DuckstationLegacyMachine \cup
        DuckstationLegacyPicture \cup DuckstationLegacyPads)
 @@ "rpcs3-window" :> Strict("rpcs3/CurrentSettings.ini", Rpcs3Window)
 @@ "rpcs3" :> Strict("rpcs3/config.yml", Rpcs3Core \cup Rpcs3Picture \cup Rpcs3Machine \cup
        Rpcs3Profile)
 @@ "rpcs3-input" :> Tolerant("active_input_configurations.yml", Rpcs3ActiveInput)
 @@ "rpcs3-pads" :> Anew("Default.yml", Rpcs3OwnPads \cup Rpcs3SdlPads)
 @@ "shadps4" :> Tolerant("shadps4/config.toml", Shadps4Defaults \cup Shadps4Settings)
 @@ "shadps4-overrides" :> Tolerant("shadps4/config.json", Shadps4Overrides)
 @@ "vita3k-window" :> Strict("vita3k/CurrentSettings.ini", Vita3kWindow)
 @@ "vita3k" :> Tolerant("vita3k/config.yml", Vita3kSettings)
 @@ "ppsspp" :> Custom(Tolerant("ppsspp.ini", PpssppPicture \cup PpssppMachine))
 @@ "ppsspp-pad" :> Anew("controls.ini", PpssppPad)
 @@ "play" :> Strict("play/config.xml", PlaySettings)
 @@ "play-pads" :> Anew("inputconfig.xml", PlayPads)
=============================================================================
