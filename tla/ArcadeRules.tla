----------------------------- MODULE ArcadeRules ----------------------------
(***************************************************************************)
(* The emulators of arcade boards and of the Dreamcast: the Lindbergh      *)
(* loader, Model 2, Supermodel, Flycast and Visual Pinball. Where a pad    *)
(* has one key for each of its buttons, the tables have one key of each    *)
(* sort; N is a player, or a port.                                         *)
(***************************************************************************)
EXTENDS ConfigRules

\* buildConfFile: the board, its screen and what one game needs. A key that is commented out is as good
\* as gone; those of a game that needs them are not commented out for the next.
LindberghMachine == {
    Always({"WIDTH", "HEIGHT", "FULLSCREEN", "REGION", "FPS_TARGET", "FPS_LIMITER_ENABLED", "FREEPLAY",
            "KEEP_ASPECT_RATIO", "DEBUG_MSGS", "HUMMER_FLICKER_FIX", "OUTRUN_LENS_GLARE_ENABLED",
            "BOOST_RENDER_RES", "SKIP_OUTRUN_CABINET_CHECK", "SRAM_PATH", "EEPROM_PATH",
            "EMULATE_CARDREADER", "BORDER_ENABLED"}),
    Either({"CPU_FREQ_GHZ"}),
    When("game", {"CARDFILE_01", "CARDFILE_02", "OR2_IP", "PRIMEVAL_HUNT_MODE"}),
    When("players", {"WHITE_BORDER_PERCENTAGE", "BLACK_BORDER_PERCENTAGE"})}

\* getMappingForJoystickOrWheel: what the inputs of a pad or a wheel may do, which depends on the game
\* and on the axes the pad has.
LindberghActions == {
    "BUTTON_START", "BUTTON_SERVICE", "BUTTON_UP", "BUTTON_DOWN", "BUTTON_LEFT", "BUTTON_RIGHT",
    "BUTTON_1", "BUTTON_2", "BUTTON_3", "BUTTON_4", "BUTTON_5", "BUTTON_6", "BUTTON_7", "BUTTON_8",
    "COIN", "ANALOGUE_1", "ANALOGUE_2", "ANALOGUE_3", "ANALOGUE_4"}

\* setup_joysticks_evdev: the pads, once all that any pad had is commented out. The buttons of a game
\* made for one player may be those of player 2.
LindberghPads == {Either(LindberghActions)}

\* setup_controllers, setup_test_mode_evdev: how the inputs are read, and the test button.
LindberghInput == {
    Always({"INPUT_MODE"}),
    Either({"TEST_BUTTON", "BUTTON_SERVICE"})}

\* setup_guns_evdev: the first two guns, with a second pair of axes for a game that shakes.
LindberghGuns == {
    Either(LindberghActions \cup {"ANALOGUE_5", "ANALOGUE_6", "ANALOGUE_7", "ANALOGUE_8"})}

\* generate: EMULATOR.INI. Whether the sights are drawn stays as it was where the launch has no gun and
\* the user no choice.
Model2Settings == {
    Always(In("Renderer", {"FullScreenWidth", "FullScreenHeight", "FullMode", "AutoFull", "ForceSync",
          "FakeGouraud", "Bilinear", "Trilinear", "FilterTilemaps", "ForceManaged", "AutoMip",
          "MeshTransparency", "FSAA"}) \cup In("Input", {"UseRawInput", "XInput", "EnableFF"})),
    When("host", In("RomDirs", {"DirN"})),
    When("players", In("Renderer", {"DrawCross"}))}

\* configPadsIni: the file of the pads, made from a template; the inputs are of the guns or of the pads.
SupermodelSettings == {
    Always(In("Global", {"Outputs", "InputSystem"})),
    When("game", In("game", {"InputSystem"})),
    When("option", In("Global", {"OutputsWithLF", "OutputsTCPPort", "OutputsUDPBroadcastPort"})),
    When("players", {"Global", "game"} \X {
        "InputAnalogJoyX", "InputGunY", "InputTrigger", "InputOffscreen", "InputStart1",
        "InputCoin1", "InputAnalogJoyEvent", "InputGunX2", "InputTrigger2", "InputCoin2"})}

\* generate: emu.cfg. What the user sets under flycast. comes last.
FlycastSettings == {
    Always(In("window", {"fullscreen", "width", "height"})
      \cup In("config", {"rend.Resolution", "rend.WideScreen", "rend.Rotate90", "pvr.rend",
          "rend.AnisotropicFiltering", "rend.PerStripSorting", "Dreamcast.Language", "Dreamcast.Region",
          "Dreamcast.AutoLoadState", "Dreamcast.AutoSaveState", "Dreamcast.ForceWindowsCE",
          "PerGameVmu", "rend.FloatVMUs", "aica.DSPEnabled", "rend.CrossHairColor1",
          "rend.CrossHairColor2", "rend.CrossHairColor3", "rend.CrossHairColor4"})
      \cup In("achievements", {"Enabled"})),
    When("option", In("achievements", {"HardcoreMode", "Token", "UserName"}))}

\* generate: the ports of the pads. That of a pad that is not there any more stays as it was.
FlycastPorts == {
    When("players", In("input", {"deviceN", "deviceN.1", "deviceN.2", "maple_sdl_joystick_N"}))}

\* generateControllerConfig: the file of one pad, made anew, which takes one axis for two directions.
FlycastPads == {
    When("players", {"analog", "digital"} \X {"bindN"}),
    Always(In("emulator", {"dead_zone", "mapping_name", "rumble_power", "version"}))}

\* generateKeyboardConfig: the hotkeys are keys of a keyboard.
FlycastKeyboard == {
    Always(In("digital", {"bind0", "bind12", "bind14", "bind15", "bind16"})
      \cup In("emulator", {"dead_zone", "mapping_name", "rumble_power", "saturation", "version"}))}

\* configureOptions. A user whose choice is manual keeps what the file has.
VpinballOptions == {
    Always(In("Standalone", {"PinMAMEPath", "AltColor", "AltSound"})
      \cup In("Player", {"BallTrail", "BallTrailStrength", "NudgeStrength", "MaxFramerate", "SyncMode",
          "ExitGameKey", "ScreenWidth", "ScreenHeight", "ScreenInclination", "ScreenPlayerY",
          "ScreenPlayerZ", "MusicVolume", "SoundVolume", "SoundDevice", "SoundDeviceBG",
          "JoyAddCreditKey", "PBWEnabled"})),
    When("option", In("Player", {"FXAA", "Sharpen", "DisableAO", "DynamicAO", "SSRefl", "PFReflection",
          "ForceAnisotropicFiltering", "AlphaRampAccuracy"}))}

\* configureWindowing: the playfield, unless the user places the windows himself.
VpinballPlayfield == {
    Always(In("Player", {"FullScreen", "BGSet"})
      \cup In("TableOverride", {"ViewCabMode", "ViewCabRotation"})),
    When("option", In("Player", {"WindowPosX", "WindowPosY", "Width", "Height"}))}

\* configurePinmame, unless the user places it himself; a window switched off keeps its place.
VpinballPinmame == {
    When("option", In("Standalone", {"PinMAMEWindow", "PinMAMEWindowX", "PinMAMEWindowY",
          "PinMAMEWindowWidth", "PinMAMEWindowHeight"}))}

\* configureFlexdmd, the same.
VpinballFlexdmd == {
    When("option", In("Standalone", {"FlexDMDWindow", "FlexDMDWindowX", "FlexDMDWindowY",
          "FlexDMDWindowWidth", "FlexDMDWindowHeight"}))}

\* configureB2s, the same, with the window of its own display where it is in a corner.
VpinballBackglass == {
    When("option", In("Standalone", {"B2SBackglass", "B2SBackglassX", "B2SBackglassY",
          "B2SBackglassWidth", "B2SBackglassHeight", "B2SWindows", "B2SHideGrill", "B2SHideB2SDMD",
          "B2SDMDX", "B2SDMDY", "B2SDMDWidth", "B2SDMDHeight"}))}

\* generate: whether a real display is plugged in, told by its service.
VpinballDmd == {Always(In("Standalone", {"DMDServer"}))}

\* The files, and how each is read.
ArcadeUnits ==
    "lindbergh" :> Tolerant("lindbergh.conf", LindberghMachine \cup LindberghInput \cup
        LindberghPads \cup LindberghGuns)
 @@ "model2emu" :> Strict("EMULATOR.INI", Model2Settings)
 @@ "supermodel" :> Anew("Supermodel.ini", SupermodelSettings)
 @@ "flycast" :> Custom(Tolerant("emu.cfg", FlycastSettings \cup FlycastPorts))
 @@ "flycast-pad" :> Anew("SDL_pad.cfg", FlycastPads)
 @@ "flycast-keyboard" :> Anew("SDL_Keyboard.cfg", FlycastKeyboard)
 @@ "vpinball" :> Strict("VPinballX.ini", VpinballOptions \cup VpinballPlayfield \cup
        VpinballPinmame \cup VpinballFlexdmd \cup VpinballBackglass \cup VpinballDmd)
=============================================================================
