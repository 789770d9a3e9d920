---------------------------- MODULE LibretroCores ---------------------------
(***************************************************************************)
(* The options of the RetroArch cores (libretroOptions.py): for each core  *)
(* what its function saves into retroarch-core-options.cfg, a file all     *)
(* cores share and every launch keeps.                                     *)
(***************************************************************************)
EXTENDS ConfigRules

\* _cap32 to _mednafen_wswan: Amstrad, Atari, Jaguar, Lynx and WonderSwan.
AmstradToWonderswan ==
    For({"cap32"}, {
        Always({"cap32_combokey", "cap32_model", "cap32_ram", "cap32_gfx_colors", "cap32_lang_layout"})})
 @@ For({"atari800"}, {
        Always({"atari800_system"}),
        When("game", {"atari800_ntscpal", "atari800_sioaccel", "atari800_artifacting",
              "atari800_resolution", "atari800_internalbasic", "atari800_CartType", "atari800_opt2"})})
 @@ For({"virtualjaguar"}, {
        Always({"virtualjaguar_usefastblitter", "virtualjaguar_bios", "virtualjaguar_doom_res_hack"})})
 @@ For({"handy"}, {
        Always({"handy_rot"})})
 @@ For({"mednafen_wswan"}, {
        Always({"wswan_rotate_display"})})

\* _vice_x64 and _vice_x128. The buttons are mapped by a loop over a literal: all of them, always.
Commodore64 ==
    For({"vice_x64", "vice_x64sc", "vice_xscpu64"}, {
        Always({"vice_jiffydos", "vice_autoloadwarp", "vice_datasette_hotkeys", "vice_read_vicerc",
                "vice_Controller", "vice_turbo_fire", "vice_mapper_a",
                "vice_mapper_aspect_ratio_toggle", "vice_mapper_b", "vice_mapper_joyport_switch",
                "vice_mapper_l", "vice_mapper_l2", "vice_mapper_l3", "vice_mapper_ld", "vice_mapper_ll",
                "vice_mapper_lr", "vice_mapper_lu", "vice_mapper_r", "vice_mapper_r2", "vice_mapper_rd",
                "vice_mapper_reset", "vice_mapper_rl", "vice_mapper_rr", "vice_mapper_ru",
                "vice_mapper_select", "vice_mapper_start", "vice_mapper_statusbar", "vice_mapper_vkbd",
                "vice_mapper_warp_mode", "vice_mapper_turbo_fire_toggle", "vice_mapper_x",
                "vice_mapper_y", "vice_c64_model", "vice_aspect_ratio", "vice_crop", "vice_zoom_mode",
                "vice_external_palette", "vice_retropad_options", "vice_joyport", "vice_joyport_type",
                "vice_ram_expansion_unit", "vice_physical_keyboard_pass_through"})})
 @@ For({"vice_x128"}, {
        Always({"vice_jiffydos", "vice_autoloadwarp", "vice_datasette_hotkeys", "vice_read_vicerc",
                "vice_Controller", "vice_turbo_fire", "vice_c128_model", "vice_aspect_ratio",
                "vice_crop", "vice_zoom_mode", "vice_external_palette", "vice_retropad_options",
                "vice_joyport", "vice_joyport_type", "vice_physical_keyboard_pass_through"})})

\* _vice_xplus4, _vice_xvic and _vice_xpet.
CommodoreOthers ==
    For({"vice_xplus4"}, {
        Always({"vice_autoloadwarp", "vice_datasette_hotkeys", "vice_read_vicerc", "vice_Controller",
                "vice_turbo_fire", "vice_plus4_model", "vice_aspect_ratio", "vice_crop",
                "vice_zoom_mode", "vice_plus4_external_palette", "vice_retropad_options",
                "vice_joyport", "vice_joyport_type", "vice_physical_keyboard_pass_through"})})
 @@ For({"vice_xvic"}, {
        Always({"vice_autoloadwarp", "vice_datasette_hotkeys", "vice_read_vicerc", "vice_Controller",
                "vice_turbo_fire", "vice_vic20_model", "vice_aspect_ratio", "vice_crop",
                "vice_zoom_mode", "vice_vic20_external_palette", "vice_retropad_options",
                "vice_joyport", "vice_joyport_type", "vice_physical_keyboard_pass_through"})})
 @@ For({"vice_xpet"}, {
        Always({"vice_autoloadwarp", "vice_datasette_hotkeys", "vice_read_vicerc", "vice_Controller",
                "vice_turbo_fire", "vice_pet_model", "vice_aspect_ratio", "vice_crop", "vice_zoom_mode",
                "vice_pet_external_palette", "vice_retropad_options", "vice_joyport",
                "vice_joyport_type", "vice_physical_keyboard_pass_through"})})

\* _puae: both branches map the same buttons; the drive and CD options only on the systems that have the
\* drive.
Amiga ==
    For({"puae", "puae2021"}, {
        Always({"puae_mapper_aspect_ratio_toggle", "puae_mapper_mouse_toggle", "puae_mapper_statusbar",
                "puae_mapper_vkbd", "puae_mapper_reset", "puae_mapper_crop_toggle",
                "puae_mapper_zoom_mode_toggle", "puae_mapper_a", "puae_mapper_b", "puae_mapper_x",
                "puae_mapper_y", "puae_mapper_l", "puae_mapper_l2", "puae_mapper_l3", "puae_mapper_ld",
                "puae_mapper_ll", "puae_mapper_lr", "puae_mapper_lu", "puae_mapper_r", "puae_mapper_r2",
                "puae_mapper_r3", "puae_mapper_rd", "puae_mapper_rl", "puae_mapper_rr",
                "puae_mapper_ru", "puae_mapper_select", "puae_mapper_start",
                "puae_video_options_display", "puae_model", "puae_cpu_compatibility",
                "puae_cpu_throttle", "puae_cpu_multiplier", "puae_video_standard",
                "puae_video_resolution", "puae_crop", "puae_zoom_mode", "puae_gfx_framerate",
                "puae_mouse_speed", "puae_retropad_options"}),
        When("game", {"puae_floppy_speed", "puae_keyrah_keypad_mappings", "puae_use_whdload_prefs",
              "puae_physical_keyboard_pass_through", "puae_cd_startup_delayed_insert", "puae_cd_speed",
              "puae_cd32pad_options"})})

\* _dice, _dolphin, _citra and _o2em. The names of citra and of azahar differ in six options.
ArcadeDiscrete ==
    For({"dice"}, {
        Always({"dice_use_mouse_pointer_for_paddle_1", "dice_retromouse_paddle0",
                "dice_retromouse_paddle1", "dice_retromouse_paddle2", "dice_retromouse_paddle3",
                "dice_retromouse_paddle0_x", "dice_retromouse_paddle0_y", "dice_retromouse_paddle1_x",
                "dice_retromouse_paddle1_y", "dice_retromouse_paddle2_x", "dice_retromouse_paddle2_y",
                "dice_retromouse_paddle3_x", "dice_retromouse_paddle3_y",
                "dice_paddle_keyboard_sensitivity", "dice_paddle_joystick_sensitivity",
                "dice_retromouse_paddle_sensitivity", "dice_wheel_keyjoy_sensitivity",
                "dice_throttle_keyjoy_sensitivity", "dice_dipswitch_1", "dice_dipswitch_2",
                "dice_dipswitch_3", "dice_dipswitch16_1", "dice_dipswitch16_2"})})
 @@ For({"dolphin"}, {
        Always({"dolphin_language", "dolphin_efb_scale", "dolphin_max_anisotropy", "dolphin_widescreen",
                "dolphin_widescreen_hack", "dolphin_shader_compilation_mode", "dolphin_osd_enabled",
                "dolphin_ir_mode"})})
 @@ For({"citra"}, {
        Always({"citra_graphics_api", "citra_layout_option", "citra_swap_screen",
                "citra_resolution_factor", "citra_use_hw_shaders", "citra_use_hw_shader_cache",
                "citra_custom_textures", "citra_is_new_3ds", "citra_mouse_touchscreen",
                "citra_touch_touchscreen", "citra_render_touchscreen"})})
 @@ For({"azahar"}, {
        Always({"citra_graphics_api", "citra_layout_option", "citra_swap_screen",
                "citra_resolution_factor", "citra_use_hw_shader", "citra_use_disk_shader_cache",
                "citra_use_vsync", "citra_async_shader_compilation", "citra_custom_textures",
                "citra_is_new_3ds", "citra_enable_mouse_touchscreen", "citra_enable_touch_touchscreen",
                "citra_enable_touch_pointer_timeout"})})
 @@ For({"o2em"}, {
        Always({"o2em_vkbd_transparency", "o2em_bios", "o2em_region", "o2em_swap_gamepads",
                "o2em_crop_overscan", "o2em_mix_frames", "o2em_low_pass_filter", "o2em_low_pass_range"})})

\* _mame, _same_cdi, _mame078plus and _vecx. The branch of mame0139 in _mame078plus is unreachable: no
\* core of that name is dispatched.
Mame ==
    For({"mame", "mess", "mamevirtual"}, {
        Always({"mame_lightgun_mode", "mame_cheats_enable", "mame_cpu_overclock", "mame_altres",
                "mame_buttons_profiles", "mame_softlists_enable", "mame_softlists_auto_media",
                "mame_read_config", "mame_boot_from_cli", "mame_mouse_enable"})})
 @@ For({"same_cdi"}, {
        Always({"same_cdi_lightgun_mode", "same_cdi_cheats_enable", "same_cdi_cpu_overclock",
                "same_cdi_altres", "same_cdi_buttons_profiles", "same_cdi_softlists_enable",
                "same_cdi_softlists_auto_media", "same_cdi_read_config", "same_cdi_boot_from_cli",
                "same_cdi_mouse_enable"})})
 @@ For({"mame078plus"}, {
        Always({"mame2003-plus_skip_disclaimer", "mame2003-plus_skip_warnings", "mame2003-plus_analog",
                "mame2003-plus_frameskip", "mame2003-plus_input_interface", "mame2003-plus_tate_mode",
                "mame2003-plus_neogeo_bios", "mame2003-plus_xy_device",
                "mame2003-plus_crosshair_enabled"})})
 @@ For({"vecx"}, {
        Always({"vecx_res_multi"})})

\* _dosbox_pure, _bluemsx and _pce. On the MSX turbo R no type of machine is saved.
DosToNec ==
    For({"dosbox_pure"}, {
        Always({"dosbox_pure_conf", "dosbox_pure_cpu_type", "dosbox_pure_cpu_core",
                "dosbox_pure_cycles", "dosbox_pure_machine", "dosbox_pure_svga", "dosbox_pure_svgamem",
                "dosbox_pure_voodoo", "dosbox_pure_voodoo_perf", "dosbox_pure_voodoo_scale",
                "dosbox_pure_memory_size", "dosbox_pure_bootos_ramdisk",
                "dosbox_pure_bootos_dfreespace", "dosbox_pure_bootos_forcenormal",
                "dosbox_pure_savestate", "dosbox_pure_keyboard_layout", "dosbox_pure_auto_mapping",
                "dosbox_pure_joystick_analog_deadzone", "dosbox_pure_joystick_timed",
                "dosbox_pure_sblaster_type", "dosbox_pure_gus", "dosbox_pure_midi"})})
 @@ For({"bluemsx"}, {
        Always({"bluemsx_overscan", "bluemsx_nospritelimits"}),
        When("game", {"bluemsx_msxtype"})})
 @@ For({"pce", "pce_fast"}, {
        Always({"pce_nospritelimit"})})

\* _quasi88, _np2kai, _mednafen_supergrafx and _pcfx.
Nec ==
    For({"quasi88"}, {
        Always({"q88_basic_mode", "q88_cpu_clock", "q88_pcg-8100"})})
 @@ For({"np2kai"}, {
        Always({"np2kai_keyboard", "np2kai_FastMC", "np2kai_model", "np2kai_cpu_feature",
                "np2kai_clk_mult", "np2kai_ExMemory", "np2kai_gdc", "np2kai_skipline", "np2kai_realpal",
                "np2kai_SNDboard", "np2kai_jast_snd", "np2kai_joymode"})})
 @@ For({"mednafen_supergrafx"}, {
        Always({"sgx_nospritelimit"})})
 @@ For({"pcfx"}, {
        Always({"pcfx_nospritelimit"})})

\* _mupen64plus_next and _parallel_n64, the four paks by a loop over the numbers 1 to 4.
Nintendo64 ==
    For({"mupen64plus-next"}, {
        Always({"mupen64plus-ThreadedRenderer", "mupen64plus-txHiresEnable", "mupen64plus-43screensize",
                "mupen64plus-169screensize", "mupen64plus-aspect", "mupen64plus-BilinearMode",
                "mupen64plus-MultiSampling", "mupen64plus-txFilterMode",
                "mupen64plus-txEnhancementMode", "mupen64plus-pak1", "mupen64plus-pak2",
                "mupen64plus-pak3", "mupen64plus-pak4", "mupen64plus-rdp-plugin",
                "mupen64plus-rsp-plugin", "mupen64plus-cpucore", "mupen64plus-Framerate",
                "mupen64plus-parallel-rdp-upscaling", "mupen64plus-astick-deadzone",
                "mupen64plus-astick-sensitivity"})})
 @@ For({"parallel_n64"}, {
        Always({"parallel-n64-64dd-hardware", "parallel-n64-boot-device", "parallel-n64-gfxplugin",
                "parallel-n64-screensize", "parallel-n64-aspectratiohint", "parallel-n64-filtering",
                "parallel-n64-framerate", "parallel-n64-pak1", "parallel-n64-pak2", "parallel-n64-pak3",
                "parallel-n64-pak4", "parallel-n64-astick-deadzone", "parallel-n64-astick-sensitivity"})})

\* _desmume, _melonds, _melondsds and _tgbdual. The two melonDS share the names of two options.
NintendoDs ==
    For({"desmume"}, {
        Always({"desmume_pointer_device_r", "desmume_internal_resolution", "desmume_gfx_multisampling",
                "desmume_gfx_texture_smoothing", "desmume_gfx_texture_scaling", "desmume_frameskip",
                "desmume_screens_layout"})})
 @@ For({"melonds"}, {
        Always({"melonds_console_mode", "melonds_language", "melonds_use_fw_settings",
                "melonds_threaded_renderer", "melonds_touch_mode", "melonds_boot_directly",
                "melonds_swapscreen_mode", "melonds_hybrid_ratio", "melonds_screen_layout"})})
 @@ For({"melondsds"}, {
        Always({"melonds_console_mode", "melonds_render_mode", "melonds_opengl_resolution",
                "melonds_opengl_better_polygons", "melonds_opengl_filtering", "melonds_show_cursor",
                "melonds_cursor_timeout", "melonds_touch_mode", "melonds_number_of_screen_layouts",
                "melonds_screen_gap", "melonds_screen_layout1", "melonds_firmware_wfc_dns",
                "melonds_firmware_language", "melonds_firmware_favorite_color",
                "melonds_firmware_birth_month", "melonds_firmware_birth_day",
                "melonds_show_unsupported_features", "melonds_show_bios_warnings",
                "melonds_show_current_layout", "melonds_show_mic_state", "melonds_show_camera_state",
                "melonds_show_lid_state"})})
 @@ For({"tgbdual"}, {
        Always({"tgbdual_gblink_enable", "tgbdual_single_screen_mp", "tgbdual_screen_placement",
                "tgbdual_audio_output", "tgbdual_switch_screens"})})

\* _gambatte, _mgba and _vba_m: most options only for some of the Game Boys.
GameBoys ==
    For({"gambatte"}, {
        Always({"gambatte_gb_bootloader", "gambatte_mix_frames"}),
        When("game", {"gambatte_gbc_color_correction", "gambatte_gb_colorization",
              "gambatte_gb_internal_palette"})})
 @@ For({"mgba"}, {
        Always({"mgba_skip_bios", "mgba_force_gbp", "mgba_gb_model"}),
        When("game", {"mgba_sgb_borders", "mgba_color_correction", "mgba_solar_sensor_level",
              "mgba_frameskip"})})
 @@ For({"vba-m"}, {
        Always({"vbam_gbHardware"}),
        When("game", {"vbam_palettes", "vbam_showborders", "vbam_gbcoloroption", "vbam_solarsensor",
              "vbam_gyro_sensitivity", "vbam_tilt_sensitivity"})})

\* _nestopia, _fceumm and _mesen.
Nes ==
    For({"nestopia"}, {
        Always({"nestopia_zapper_device", "nestopia_show_crosshair", "nestopia_nospritelimit",
                "nestopia_overscan_h_left", "nestopia_overscan_h_right", "nestopia_overscan_v_top",
                "nestopia_overscan_v_bottom", "nestopia_palette", "nestopia_blargg_ntsc_filter",
                "nestopia_overclock", "nestopia_select_adapter"})})
 @@ For({"fceumm"}, {
        Always({"fceumm_zapper_mode", "fceumm_show_crosshair", "fceumm_nospritelimit",
                "fceumm_overscan_h_left", "fceumm_overscan_h_right", "fceumm_overscan_v_top",
                "fceumm_overscan_v_bottom", "fceumm_palette", "fceumm_ntsc_filter", "fceumm_sndquality",
                "fceumm_overclocking"})})
 @@ For({"mesen"}, {
        Always({"mesen_region", "mesen_screenrotation", "mesen_ntsc_filter", "mesen_nospritelimit",
                "mesen_palette", "mesen_hdpacks", "mesen_fdsautoinsertdisk", "mesen_fdsfastforwardload",
                "mesen_ramstate", "mesen_overclock", "mesen_overclock_type"})})

\* _pokemini to _vb. With a gun the superscope's buttons are saved, without they stay.
Snes ==
    For({"pokemini"}, {
        Always({"pokemini_lcdfilter", "pokemini_lcdmode"})})
 @@ For({"snes9x"}, {
        Always({"snes9x_reduce_sprite_flicker", "snes9x_overclock_cycles", "snes9x_overclock_superfx",
                "snes9x_hires_blend", "snes9x_blargg", "snes9x_superscope_crosshair",
                "snes9x_justifier1_crosshair", "snes9x_justifier2_crosshair", "snes9x_rifle_crosshair"}),
        When("players", {"snes9x_superscope_reverse_buttons"})})
 @@ For({"snes9x_next"}, {
        Always({"snes9x_2010_reduce_sprite_flicker", "snes9x_2010_overclock_cycles",
                "snes9x_2010_overclock", "snes9x_2010_blargg", "snes9x_2010_superscope_crosshair"})})
 @@ For({"bsnes"}, {
        Always({"bsnes_video_filter"}),
        When("players", {"bsnes_touchscreen_lightgun_superscope_reverse"})})
 @@ For({"mesen-s"}, {
        Always({"mesen-s_gbmodel", "mesen-s_sgb2", "mesen-s_ntsc_filter", "mesen-s_blend_high_res",
                "mesen-s_cubic_interpolation", "mesen-s_overclock", "mesen-s_overclock_type",
                "mesen-s_superfx_overclock"})})
 @@ For({"vb"}, {
        Always({"vb_color_mode", "vb_anaglyph_preset"})})

\* _opera, _xrick and _scummvm.
Opera3do ==
    For({"opera"}, {
        Always({"opera_dsp_threaded", "opera_high_resolution", "opera_cpu_overclock",
                "opera_active_devices", "opera_hack_timing_1", "opera_hack_timing_3",
                "opera_hack_timing_5", "opera_hack_timing_6", "opera_nvram_storage"})})
 @@ For({"xrick"}, {
        Always({"xrick_crop_borders", "xrick_cheat1", "xrick_cheat2", "xrick_cheat3"})})
 @@ For({"scummvm"}, {
        Always({"scummvm_analog_deadzone", "scummvm_gamepad_cursor_speed", "scummvm_speed_hack"})})

\* _flycast.
Dreamcast ==
    For({"flycast"}, {
        Always({"reicast_per_content_vmus", "reicast_synchronous_rendering", "reicast_enable_dsp",
                "reicast_threaded_rendering", "reicast_enable_purupuru", "reicast_lightgun1_crosshair",
                "reicast_lightgun2_crosshair", "reicast_lightgun3_crosshair",
                "reicast_lightgun4_crosshair", "reicast_internal_resolution", "reicast_mipmapping",
                "reicast_anisotropic_filtering", "reicast_texupscale", "reicast_frame_skipping",
                "reicast_force_wince", "reicast_widescreen_cheats", "reicast_widescreen_hack",
                "reicast_language", "reicast_region", "reicast_native_depth_interpolation",
                "reicast_screen_rotation", "reicast_analog_stick_deadzone"})})

\* _genesisplusgx and _picodrive.
Megadrive ==
    For({"genesisplusgx", "genesisplusgx-expanded"}, {
        Always({"genesis_plus_gx_system_bram", "genesis_plus_region_detect",
                "genesis_plus_gx_no_sprite_limit", "genesis_plus_gx_blargg_ntsc_filter",
                "genesis_plus_gx_gun_cursor", "genesis_plus_gx_ym2612", "genesis_plus_gx_ym2413",
                "genesis_plus_gx_lcd_filter", "genesis_plus_gx_gg_extra", "genesis_plus_gx_add_on",
                "genesis_plus_gx_cdda_volume"}),
        When("players", {"genesis_plus_gx_gun_input"})})
 @@ For({"picodrive"}, {
        Always({"picodrive_sprlim", "picodrive_overscan", "picodrive_input1", "picodrive_input2",
                "picodrive_ramcart"})})

\* _yabasanshiro to _fuse.
SaturnToSpectrum ==
    For({"yabasanshiro"}, {
        Always({"yabasanshiro_resolution_mode", "yabasanshiro_multitap_port1",
                "yabasanshiro_multitap_port2", "yabasanshiro_system_language"})})
 @@ For({"kronos"}, {
        Always({"kronos_resolution_mode", "kronos_meshmode", "kronos_bandingmode",
                "kronos_use_beetle_saves", "kronos_multitap_port1", "kronos_multitap_port2",
                "kronos_language_id"}),
        When("host", {"kronos_videocoretype"})})
 @@ For({"beetle-saturn"}, {
        Always({"beetle_saturn_virtuagun_crosshair", "beetle_saturn_analog_stick_deadzone"})})
 @@ For({"px68k"}, {
        Always({"px68k_disk_path", "px68k_cpuspeed", "px68k_ramsize", "px68k_frameskip",
                "px68k_joytype1", "px68k_joytype2"})})
 @@ For({"81"}, {
        Always({"81_fast_load", "81_sound", "81_chroma_81", "81_highres"})})
 @@ For({"fuse"}, {
        Always({"fuse_machine", "fuse_hide_border"})})

\* _fbneo, _neocd, _ppsspp and _mednafen_psx. The dip switches of a game are named after it.
NeoGeoToPlaystation ==
    For({"fbneo"}, {
        Always({"fbneo-diagnostic-input", "fbneo-allow-patched-romsets", "fbneo-cpu-speed-adjust",
                "fbneo-frameskip", "fbneo-lightgun-crosshair-emulation", "fbneo-dipswitch-ROM-Controls"}),
        When("game", {"fbneo-neogeo-mode", "fbneo-dipswitch-ROM-BIOS", "fbneo-memcard-mode"})})
 @@ For({"neocd"}, {
        Always({"neocd_region", "neocd_bios", "neocd_per_content_saves"})})
 @@ For({"ppsspp"}, {
        Always({"ppsspp_internal_resolution"})})
 @@ For({"mednafen_psx"}, {
        Always({"beetle_psx_hw_cpu_freq_scale", "beetle_psx_hw_skip_bios",
                "beetle_psx_hw_internal_resolution", "beetle_psx_hw_widescreen_hack",
                "beetle_psx_hw_frame_duping", "beetle_psx_hw_cpu_dynarec",
                "beetle_psx_hw_dynarec_invalidate", "beetle_psx_hw_analog_calibration",
                "beetle_psx_hw_enable_multitap_port1", "beetle_psx_hw_enable_multitap_port2"})})

\* _duckstation and _pcsx2.
Playstations ==
    For({"swanstation", "duckstation"}, {
        Always({"swanstation_GPU_Renderer", "swanstation_BIOS_PatchFastBoot",
                "swanstation_GPU_ResolutionScale", "swanstation_GPU_PGXPEnable", "swanstation_GPU_MSAA",
                "swanstation_GPU_TextureFilter", "swanstation_GPU_WidescreenHack",
                "swanstation_Display_AspectRatio", "swanstation_Display_CropMode",
                "swanstation_Controller_ShowCrosshair"})})
 @@ For({"pcsx2"}, {
        Always({"pcsx2_fastboot", "pcsx2_fastcdvd", "pcsx2_enable_cheats", "pcsx2_hint_language_unlock",
                "pcsx2_renderer", "pcsx2_upscale_multiplier", "pcsx2_texture_filtering",
                "pcsx2_trilinear_filtering", "pcsx2_anisotropic_filtering", "pcsx2_dithering",
                "pcsx2_blending_accuracy", "pcsx2_widescreen_hint"})})

\* _pcsx_rearmed to _tyrquake.
PlaystationToQuake ==
    For({"pcsx_rearmed"}, {
        Always({"pcsx_rearmed_show_gpu_peops_settings", "pcsx_rearmed_show_other_input_settings",
                "pcsx_rearmed_vibration", "pcsx_rearmed_show_bios_bootlogo", "pcsx_rearmed_frameskip",
                "pcsx_rearmed_neon_enhancement_enable", "pcsx_rearmed_neon_enhancement_no_main",
                "pcsx_rearmed_multitap", "pcsx_rearmed_idiablofix", "pcsx_rearmed_pe2_fix",
                "pcsx_rearmed_inuyasha_fix", "pcsx_rearmed_gpu_peops_odd_even_bit",
                "pcsx_rearmed_gpu_peops_expand_screen_width",
                "pcsx_rearmed_gpu_peops_ignore_brightness", "pcsx_rearmed_gpu_peops_lazy_screen_update",
                "pcsx_rearmed_gpu_peops_repeated_triangles", "pcsx_rearmed_crosshair1",
                "pcsx_rearmed_crosshair2"})})
 @@ For({"theodore"}, {
        Always({"theodore_autorun"})})
 @@ For({"potator"}, {
        Always({"potator_palette", "potator_lcd_ghosting"})})
 @@ For({"prboom"}, {
        Always({"prboom-resolution"})})
 @@ For({"tyrquake"}, {
        Always({"tyrquake_resolution", "tyrquake_framerate", "tyrquake_rumble"})})

\* _mrboom and _hatarib.
AtariSt ==
    For({"mrboom"}, {
        Always({"mrboom-aspect"})})
 @@ For({"hatarib"}, {
        Always({"hatarib_statusbar", "hatarib_fast_floppy", "hatarib_show_welcome", "hatarib_tos",
                "hatarib_machine", "hatarib_region", "hatarib_cpu", "hatarib_cpu_clock",
                "hatarib_memory", "hatarib_pause_osk", "hatarib_aspect", "hatarib_borders",
                "hatarib_hardimg", "hatarib_hardboot", "hatarib_hard_readonly", "hatarib_hardtype"})})

CoreOptions == AmstradToWonderswan @@ Commodore64 @@ CommodoreOthers @@ Amiga
               @@ ArcadeDiscrete @@ Mame @@ DosToNec @@ Nec
               @@ Nintendo64 @@ NintendoDs @@ GameBoys @@ Nes
               @@ Snes @@ Opera3do @@ Dreamcast @@ Megadrive
               @@ SaturnToSpectrum @@ NeoGeoToPlaystation @@ Playstations @@ PlaystationToQuake
               @@ AtariSt

\* generateCoreSettings: the function of the core, if there is one for it, then every setting
\* retroarchcore.* of the user.
OptionsOfACore(core) ==
    Custom(Strict("retroarch-core-options.cfg",
                  IF core \in DOMAIN CoreOptions THEN CoreOptions[core] ELSE {}))
=============================================================================
