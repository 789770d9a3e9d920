----------------------------- MODULE EngineRules ----------------------------
(***************************************************************************)
(* Game engines and home computers that run outside libretro. Where a      *)
(* generator does the same for several files of one game, the table has    *)
(* one of them. N is a player or a joystick.                               *)
(***************************************************************************)
EXTENDS ConfigRules

\* generate: omconfig.cfg of the game or of its expansion. Its lines are matched from their start.
OpenmohaaOptions == {
    Always({"seta r_mode", "seta r_fullscreen", "seta r_allowResize", "seta r_centerWindow",
            "seta r_customheight", "seta r_customwidth", "seta r_customaspect", "bind [", "bind ]",
            "seta r_colorbits", "seta r_picmip", "seta r_texturebits", "seta r_textureMode",
            "seta cg_marks_add", "seta cg_rain", "seta r_gamma", "seta r_ext_compressed_textures",
            "seta cg_drawviewmodel", "seta cg_shadows", "seta ter_maxlod", "seta ter_error",
            "seta r_lodviewmodelcap", "seta r_lodcap", "seta r_lodscale", "seta cg_effectdetail",
            "seta vss_maxcount", "seta r_subdivisions", "seta g_subtitle", "seta r_fastdlights",
            "seta r_fastentlight", "seta vss_draw", "seta ui_weaponsbar", "seta ui_crosshair"})}

\* generate: the file of Jedi Academy or of Jedi Outcast. What has its default is taken out.
OpenjkOptions == {
    Always({"seta r_mode", "seta r_fullscreen", "seta r_centerWindow", "seta r_customheight",
            "seta r_customwidth", "seta r_picmip", "seta r_textureMode", "seta r_gamma",
            "seta cg_shadows", "seta r_dynamiclight", "seta r_flares", "seta cg_marks",
            "seta r_ext_texture_filter_anisotropic", "seta cg_drawCrosshair",
            "seta cg_crosshairIdentifyTarget", "seta d_slowmodeath", "seta cg_gunAutoFirst",
            "seta g_dismemberment", "seta ui_disableWeaponSway", "seta se_language", "seta s_language",
            "seta g_subtitles"}),
    Either({"seta r_colorbits", "seta r_depthbits", "seta r_lodbias", "seta r_subdivisions",
            "seta r_texturebits", "seta r_detailtextures", "seta r_swapInterval", "seta r_DynamicGlow"})}

\* generate: dhewm.cfg of base and of the mod, in the same way.
Dhewm3Options == {
    Always({"seta r_mode", "seta r_fullscreen", "seta r_customHeight", "seta r_customWidth",
            "bind JOY_BTN_SOUTH", "bind JOY_BTN_EAST", "bind JOY_BTN_WEST", "bind JOY_BTN_NORTH",
            "bind JOY_BTN_LSTICK", "bind JOY_BTN_RSTICK", "bind JOY_BTN_LSHOULDER",
            "bind JOY_BTN_RSHOULDER", "bind JOY_STICK1_UP", "bind JOY_STICK1_DOWN",
            "bind JOY_STICK1_LEFT", "bind JOY_STICK1_RIGHT", "bind JOY_STICK2_UP",
            "bind JOY_STICK2_DOWN", "bind JOY_STICK2_LEFT", "bind JOY_STICK2_RIGHT",
            "bind JOY_TRIGGER2", "seta r_brightness", "seta sys_lang"})}

\* generate: wolfconfig.cfg. A line is looked for by the text of the option anywhere in it, and "seta
\* in_joystick" is in the lines of "seta in_joystickUseAnalog" too: each launch adds a line.
IortcwOptions == {
    Always({"seta r_mode", "seta r_noborder", "seta r_fullscreen", "seta r_allowResize",
            "seta r_centerWindow", "seta r_inGameVideo", "seta r_customheight", "seta r_customwidth",
            "seta in_joystick", "seta in_joystickUseAnalog", "bind PAD0_A", "bind PAD0_X",
            "bind PAD0_Y", "bind PAD0_B", "bind PAD0_LEFTSHOULDER", "bind PAD0_RIGHTSHOULDER",
            "bind PAD0_LEFTSTICK_LEFT", "bind PAD0_LEFTSTICK_RIGHT", "bind PAD0_LEFTSTICK_UP",
            "bind PAD0_LEFTSTICK_DOWN", "bind PAD0_RIGHTSTICK_LEFT", "bind PAD0_RIGHTSTICK_RIGHT",
            "bind PAD0_RIGHTSTICK_UP", "bind PAD0_RIGHTSTICK_DOWN", "bind PAD0_LEFTTRIGGER",
            "bind PAD0_RIGHTTRIGGER", "seta cl_renderer", "seta r_swapInterval", "seta com_maxfps",
            "seta r_ext_texture_filter_anisotropic", "seta r_ext_max_anisotropy",
            "seta r_ext_multisample", "seta r_ext_framebuffer_multisample", "seta com_introplayed",
            "seta cl_language"})}

\* _update_ini_file: the keyboard and the pad of the engine where the file has none, then the numbered
\* buttons of the first pad, whose old ones are cleared.
GZDoomSettings == {
    Always(In("GlobalSettings", {"vid_vsync", "use_joystick"})),
    Either(In("Doom.Bindings", {"JoyN"}) \cup In("Doom.AutomapBindings", {"JoyN"})),
    When("players", In("Joy:JS:N", {"Enabled"})),
    Seed(In("Doom.Bindings", {"1", "2", "3", "4", "5", "6", "7", "8", "9", "0", "W", "S", "A", "D", "E",
          "T", "LeftBracket", "RightBracket", "Enter", "Shift", "X", "Space", "Tab", "CapsLock", "F1",
          "F2", "F3", "F4", "F5", "F6", "F7", "F8", "F9", "F10", "F11", "F12", "SysRq", "Pause", "Home",
          "PgUp", "End", "PgDn", "Ins", "Del", "Mouse1", "Mouse2", "MWheelUp", "MWheelDown",
          "MWheelRight", "MWheelLeft", "Axis3Plus", "Axis6Plus", "DPadUp", "DPadDown", "DPadLeft",
          "DPadRight", "Pad_Start", "Pad_Back", "LThumb", "LShoulder", "RShoulder", "LTrigger",
          "RTrigger", "Pad_A", "Pad_Y", "Backquote", "Backslash"})
      \cup In("Doom.AutomapBindings", {"0", "=", "-", "P", "F", "G", "C", "M", "KP-", "KP+", "UpArrow",
          "LeftArrow", "RightArrow", "DownArrow", "POV1Up", "POV1Right", "POV1Down", "POV1Left",
          "MWheelUp", "MWheelDown", "DPadUp", "DPadDown", "DPadLeft", "DPadRight", "LShoulder",
          "RShoulder", "Pad_A", "Pad_B", "Pad_X"}) \cup In("IWADSearch.Directories", {"Path"})
      \cup In("FileSearch.Directories", {"Path"})
      \cup In("SoundfontSearch.Directories", {"Path"}))}

\* _create_script_file: the commands run when the engine starts.
GZDoomScript == {Always({"logfile", "vid_fps", "vid_preferbackend"}), When("option", {"gl_es"})}

\* generate: settings.ini, which is removed first.
SonicRetroSettings == {
    Always(In("Dev", {"DevMenu", "EngineDebugMode", "StartingCategory", "StartingScene",
          "FastForwardSpeed", "UseHQModes", "DataFile"}) \cup In("Game", {"Language"})
      \cup In("Window", {"FullScreen", "Borderless", "VSync", "ScalingMode", "WindowScale",
          "ScreenWidth", "RefreshRate", "DimLimit"}) \cup In("Audio", {"BGMVolume", "SFXVolume"})
      \cup In("Keyboard 1", {"Up", "Down", "Left", "Right", "A", "B", "C", "X", "Y", "Z", "L", "R",
          "Start", "Select"})),
    When("game", In("Dev", {"StartingPlayer", "StartingSaveFile", "UseSteamDir"})
      \cup In("Game", {"SkipStartMenu", "OriginalControls", "DisableTouchControls", "GameType"})),
    When("players", In("Controller 1", {"Up", "Down", "Left", "Right", "A", "B", "C", "X", "Y", "Z",
          "L", "R", "Select", "Start"}))}

\* generate: the settings of the game next to it; JSON that cannot be read is taken as none.
TR2XSettings == {Always({"is_fullscreen", "width", "height"})}

\* generate: settings.ini.
ForceEngineSettings == {
    Always(In("Window", {"width", "height", "fullscreen"}) \cup In("Graphics", {"gameWidth",
          "gameHeight", "widescreen", "vsync", "frameRateLimit", "renderer", "colorMode", "useBilinear",
          "useMipmapping", "reticleEnable", "bloomEnabled"}) \cup In("Hud", {"hudScale", "hudPos",
          "scale"}) \cup In("Enhancements", {"hdTextures", "hdSprites", "hdHud"})
      \cup In("Sound", {"disableSoundInMenus", "use16Channels"}) \cup In("Game", {"game"})
      \cup In("Dark_Forces", {"sourcePath", "disableFightMusic", "enableAutoaim", "showSecretFoundMsg",
          "autorun", "bobaFettFacePlayer", "smoothVUEs"}) \cup In("Outlaws", {"sourcePath"}))}

\* generate: cgenius.cfg, then copied to the folder of the games. The section of a pad that is no longer
\* there stays.
CGeniusSettings == {
    Always(In("FileHandling", {"EnableLogfile", "SearchPath1", "SearchPath2"})
      \cup In("Video", {"aspect", "fullscreen", "integerScaling", "filter", "OGLfilter", "gameHeight",
            "gameWidth", "ShowCursor"})),
    When("players", In("inputN", {"Fire", "Jump", "Camlead", "Status", "Pogo", "Run", "Up", "Down",
          "Left", "Right"}))}

\* generate: ecwolf.cfg. The keys it has for itself are filtered out and put at the end.
ECWolfSettings == {
    Made({"Vid_FullScreen", "Vid_Aspect", "Vid_Vsync", "QuitOnEscape"}),
    Always({"JoystickEnabled", "FullScreenWidth", "FullScreenHeight"})}

\* generate: redream.cfg, from nothing; a profile is written once for pads of one kind.
RedreamSettings == {
    Always({"gamedir", "mode", "fullmode", "width", "height", "fullwidth", "fullheight", "res",
            "aspect", "frameskip", "vsync", "renderer", "region", "language", "broadcast", "cable"}),
    When("players", {"portN", "profileN"})}

\* generate: config.txt, deleted first.
CorsixTHSettings == {
    Always({"check_for_updates", "theme_hospital_install", "unicode_font", "savegames", "screenshots",
            "fullscreen", "width", "height", "use_new_graphics", "free_build_mode", "play_intro",
            "language", "audio_music"})}

\* generate: settings.xml, over the copy of the one in the image.
OpenmsxSettings == {Always(In("settings", {"fullspeedwhenloading"}) \cup In("bindings", {"keyb F6"}))}

\* generate: script.tcl, for at most two joysticks.
OpenmsxScript == {
    Always({"filepool", "savestate", "bind F5"}),
    When("players", {"plug joyportN", "joystickN_config", "bind joyN"})}

\* setViceConfig: the section of a machine in sdl-vicerc, for its video chips.
ViceSettings(machine, chips, bordered) ==
    LET of(key) == In(machine, {chip \o key : chip \in chips})
    IN  {Always(of("Fullscreen") \cup of("FullscreenMode") \cup of("AspectMode")
           \cup In(machine, {"SaveResourcesOnExit", "SoundDeviceName", "JoyPort1Device", "JoyDevice1",
                 "JoyMapFile", IF machine = "VIC20" THEN "JoyDevice1" ELSE "JoyDevice2"})
           \cup In(machine, {chip \o "BorderMode" : chip \in bordered}))}

\* generateControllerConfig: sdl-joymap.vjm, the pads' lines after a !CLEAR.
ViceJoymap == {Always({"!CLEAR"}), When("players", {"pad N axis", "pad N button", "pad N hat"})}

\* generate: amiberry.conf.
AmiberrySettings == {
    Always({"default_quit_key", "default_open_gui_key", "saveimage_dir", "savestate_dir",
            "screenshot_dir", "nvram_dir", "rom_path", "whdboot_path", "logfile_path",
            "controllers_path", "retroarch_config", "default_vkbd_enabled", "default_vkbd_hires",
            "default_vkbd_transparency", "default_vkbd_language", "default_vkbd_toggle",
            "default_fullscreen_mode", "write_logfile"})}

\* generateConfig: hatari.cfg. The joysticks that have a section are unplugged before the pads are
\* plugged in.
HatariSettings == {
    Over(In("JoystickN", {"nJoyId", "nJoystickMode"})),
    When("players", In("JoystickN", {"nJoyId", "nJoystickMode", "nButton1", "nButton2", "nButton3"})),
    Always(In("Log", {"bConfirmQuit"}) \cup In("Screen", {"bShowStatusbar"}))}

\* writeKodiConfigs: the button map of a kind of pad, written when one is connected.
KodiButtonmap == {
    When("players", {"name", "provider", "vid", "pid", "buttoncount", "axiscount", "feature button",
                     "feature axis", "leftstick", "rightstick"})}

\* generateControllerConfig: the file of a kind of pad.
FsuaePads == {When("players", In("fs-uae-controller", {"name", "platform"})
                \cup In("default", {"include", "button_N", "hat_N", "axis_N"}))}

\* padConfig: pads.ini, for the first player.
SolarusPads == {
    When("players", {"action", "attack", "item1", "item2", "pause", "right", "up", "left", "down"})}

\* _write_config: config.yml. A default is put where there is none; an option of the user is written
\* over, and stays.
Eka2l1Settings ==
    LET asked == {"current-keybind-profile", "integer-scaling", "enable-nearest-neighbor-filter",
                  "audio-master-volume"}
    IN  {Seed(asked \cup {"data-storage"}), When("option", asked)}

\* _update_or_create_config: bstone_config.txt.
BstoneSettings == {
    Always({"vid_width", "vid_height", "vid_is_widescreen", "vid_is_vsync", "vid_is_ui_stretched"})}

\* generate: the sound, the preferences and the language of both games.
FalloutPreferences == {
    Always(In("sound", {"music_path1", "music_path2"}) \cup In("system", {"language"})
      \cup In("preferences", {"game_difficulty", "combat_difficulty", "violence_level", "subtitles"}))}

\* generate: the first game's data.
Fallout1Paths == {
    Always(In("system", {"critter_dat", "critter_patches", "master_dat", "master_patches"}))}

\* generate: the first game's screen.
Fallout1Screen == {Always(In("MAIN", {"SCALE_2X", "SCR_WIDTH", "SCR_HEIGHT", "WINDOWED"}))}

\* generate: the second game's screen.
Fallout2Screen == {
    Always(In("MAIN", {"SCALE_2X", "SCR_WIDTH", "SCR_HEIGHT", "WINDOWED", "f2_res_patches"}))}

\* generate: CatacombGL.ini. What a line has after a second equals sign is lost.
CatacombGLSettings == {
    Always({"pathabyssv113", "pathabyssv124", "patharmageddonv102", "pathapocalypsev101",
            "pathcatacomb3dv122", "screenmode", "WindowedScreenWidth", "WindowedScreenHeight"})}

\* generate: config.json of the game; one that cannot be read is taken as none.
IkemenSettings == {Always({"KeyConfig", "JoystickConfig", "Fullscreen"})}

\* generate: what is wanted in mugen.cfg, by the version of the game, put in line by line; a second
\* section of one name loses its heading.
MugenPresets == {
    Always(In("Input", {"P1.UseKeyboard", "P2.UseKeyboard", "P1.Joystick.type", "P2.Joystick.type"})
      \cup In("P1 Keys", {"Jump", "Crouch", "Left", "Right", "A", "B", "C", "X", "Y", "Z", "Start"})
      \cup In("P2 Keys", {"Jump", "Crouch", "Left", "Right", "A", "B", "C", "X", "Y", "Z", "Start"})),
    When("game", In("Video Win", {"FullScreen", "Width", "Height", "DXmode"})
      \cup In("Video", {"FullScreen", "Width", "Height"}) \cup In("Config", {"GameWidth", "GameHeight"}))}

\* generate: diablo.ini.
DevilutionXSettings == {Always(In("Graphics", {"Fit to Screen"}))}

\* generate: openjkdf2.json.
Openjkdf2Settings == {
    Always({"bDisableWeaponWaggle", "bEnableJkgm", "bEnableTexturePrecache", "bFastMissionText",
            "bJankyPhysics", "bKeepCorpses", "bUseOldPlayerPhysics", "canonicalCogTickrate",
            "canonicalPhysTickrate", "crosshairLineWidth", "crosshairScale", "enablebloom",
            "enablessao", "enablevsync", "fov", "fovisvertical", "fpslimit", "gamma", "hudScale",
            "originalaspect", "setCrosshairOnFist", "setCrosshairOnLightsaber", "ssaamultiple",
            "texturefiltering", "windowfullscreen", "windowishidpi"})}

\* generate: openjkdf2_cvars.json, where the same options have other names.
Openjkdf2Cvars == {
    Always({"g_bJankyPhysics", "g_bKeepCorpses", "g_bUseOldPlayerPhysics", "g_canonicalCogTickrate",
            "g_canonicalPhysTickrate", "hud_crosshairLineWidth", "hud_crosshairScale",
            "hud_disableWeaponWaggle", "hud_scale", "hud_setCrosshairOnFist",
            "hud_setCrosshairOnLightsaber", "menu_bFastMissionText", "r_bEnableJkgm",
            "r_bEnableTexturePrecache", "r_enableBloom", "r_enableOrigAspect", "r_enableSSAO",
            "r_enableTextureFilter", "r_enableVsync", "r_fov", "r_fovIsVertical", "r_fpslimit",
            "r_fullscreen", "r_gamma", "r_hidpi", "r_ssaaMultiple"})}

\* _OpenJazzConfig: the binary file, of which one that cannot be read is made again whole. (scale_2x is
\* in neither set: load takes its bit inverted and save does not, so that each launch flips it.)
OpenJazzFile == {
    Made({"version", "fullscreen", "video_scale", "keys", "buttons", "axes", "hats", "character_name",
          "character_colors", "music_volume", "sound_volume", "many_birds", "leave_unneeded",
          "slow_motion"})}

\* generate: the buttons of the first pad and the size of the screen.
OpenJazzSettings == {Always({"video_width", "video_height"}), When("players", {"buttons"})}

\* generatePadsConfig: default.cfg, where neither a file of the user is kept nor everything is
\* unplugged.
MameDefault == {
    Always(In("mameconfig", {"version"}) \cup In("system", {"name"})),
    Either(In("crosshairs", {"crosshair N"}))}

\* generatePadsConfig: the file of a machine with controls of its own.
MameSpecial == {
    Always(In("mameconfig", {"version"}) \cup In("system", {"name"})),
    When("game", In("video", {"target"})),
    Either(In("input", {"keyboard", "port N"}))}

\* generatePadsConfig: the ports of the pads, and of the guns there are more of. The mapping of a pad
\* without a stick, or of a wheel, is that of all players after it.
MamePorts == {Either(In("input", {"port N", "UI_UP", "UI_DOWN", "UI_LEFT", "UI_RIGHT", "UI_SELECT"}))}

\* The files of these generators and how each is opened.
EngineUnits ==
    "openmohaa" :> Tolerant("omconfig.cfg", OpenmohaaOptions)
 @@ "openjk" :> Tolerant("openjk_sp.cfg", OpenjkOptions)
 @@ "dhewm3" :> Tolerant("dhewm.cfg", Dhewm3Options)
 @@ "iortcw" :> Tolerant("wolfconfig.cfg", IortcwOptions)
 @@ "gzdoom" :> Tolerant("gzdoom.ini", GZDoomSettings)
 @@ "gzdoom-script" :> Anew("gzdoom.cfg", GZDoomScript)
 @@ "sonicretro" :> Anew("settings.ini (sonic)", SonicRetroSettings)
 @@ "tr2x" :> Tolerant("TR2X.json5", TR2XSettings)
 @@ "theforceengine" :> Strict("settings.ini (force)", ForceEngineSettings)
 @@ "cgenius" :> Strict("cgenius.cfg", CGeniusSettings)
 @@ "ecwolf" :> Tolerant("ecwolf.cfg", ECWolfSettings)
 @@ "redream" :> Anew("redream.cfg", RedreamSettings)
 @@ "corsixth" :> Anew("config.txt", CorsixTHSettings)
 @@ "openmsx" :> Anew("settings.xml", OpenmsxSettings)
 @@ "openmsx-script" :> Anew("script.tcl", OpenmsxScript)
 @@ "x64" :> Custom(Strict("sdl-vicerc", ViceSettings("C64", {"VICII"}, {"VICII"})))
 @@ "xvic" :> Custom(Strict("sdl-vicerc", ViceSettings("VIC20", {"VIC"}, {"VIC"})))
 @@ "xpet" :> Custom(Strict("sdl-vicerc", ViceSettings("PET", {"Crtc"}, {})))
 @@ "xplus4" :> Custom(Strict("sdl-vicerc", ViceSettings("PLUS4", {"TED"}, {"TED"})))
 @@ "x128" :> Custom(Strict("sdl-vicerc", ViceSettings("C128", {"VICII", "VDC"}, {"VICII"})))
 @@ "vice-joymap" :> Anew("sdl-joymap.vjm", ViceJoymap)
 @@ "amiberry" :> Strict("amiberry.conf", AmiberrySettings)
 @@ "hatari" :> Strict("hatari.cfg", HatariSettings)
 @@ "kodi" :> Anew("buttonmap.xml", KodiButtonmap)
 @@ "fsuae-pads" :> Anew("pad_linux.conf", FsuaePads)
 @@ "solarus" :> Anew("pads.ini", SolarusPads)
 @@ "eka2l1" :> Strict("config.yml", Eka2l1Settings)
 @@ "bstone" :> Tolerant("bstone_config.txt", BstoneSettings)
 @@ "fallout1" :> Strict("fallout.cfg", FalloutPreferences \cup Fallout1Paths)
 @@ "fallout1-screen" :> Strict("f1_res.ini", Fallout1Screen)
 @@ "fallout2" :> Strict("fallout2.cfg", FalloutPreferences)
 @@ "fallout2-screen" :> Strict("f2_res.ini", Fallout2Screen)
 @@ "catacombgl" :> Tolerant("CatacombGL.ini", CatacombGLSettings)
 @@ "ikemen" :> Tolerant("config.json", IkemenSettings)
 @@ "mugen" :> Tolerant("mugen.cfg", MugenPresets)
 @@ "devilutionx" :> Strict("diablo.ini", DevilutionXSettings)
 @@ "openjkdf2" :> Tolerant("openjkdf2.json", Openjkdf2Settings)
 @@ "openjkdf2-cvars" :> Tolerant("openjkdf2_cvars.json", Openjkdf2Cvars)
 @@ "openjazz" :> Tolerant("openjazz.cfg", OpenJazzFile \cup OpenJazzSettings)
 @@ "mame" :> Tolerant("default.cfg", MameDefault \cup MamePorts)
 @@ "mame-system" :> Tolerant("system.cfg", MameSpecial)
=============================================================================
