--------------------------- MODULE RetroarchRules ---------------------------
(***************************************************************************)
(* RetroArch's own configuration, retroarchcustom.cfg, as a launch of any  *)
(* core treats it: made once from defaults, read, cleared of the players'  *)
(* inputs, and saved over with what createLibretroConfig decides           *)
(* (libretroGenerator.py 117-142).                                         *)
(***************************************************************************)
EXTENDS ConfigRules

\* generateRetroarchCustom: only when there is no retroarchcustom.cfg.
Defaults == {
    Made({"menu_driver", "content_show_favorites", "content_show_images", "content_show_music",
          "content_show_video", "content_show_history", "content_show_playlists", "content_show_add",
          "menu_show_load_core", "menu_show_load_content", "menu_show_online_updater",
          "menu_show_core_updater", "input_autodetect_enable", "input_joypad_driver",
          "input_enable_hotkey_btn", "input_enable_hotkey", "input_menu_toggle", "input_exit_emulator",
          "video_aspect_ratio_auto", "video_gpu_screenshot", "video_shader_enable",
          "aspect_ratio_index", "audio_volume", "global_core_options", "config_save_on_exit",
          "savestate_auto_save", "savestate_auto_load", "menu_swap_ok_cancel_buttons",
          "rgui_extended_ascii", "rgui_show_start_screen", "video_font_enable",
          "savestate_thumbnail_enable", "all_users_control_menu", "cheevos_badges_enable",
          "builtin_imageviewer_enable", "fps_update_interval"})}

\* generateRetroarchCustomPathes.
Paths == {
    Always({"core_options_path", "assets_directory", "screenshot_directory",
            "recording_output_directory", "savestate_directory", "savefile_directory",
            "extraction_directory", "cheat_database_path", "cheat_settings_path", "system_directory",
            "joypad_autoconfig_dir", "video_shader_dir", "video_font_path", "video_filter_dir",
            "audio_filter_dir"})}

\* cleanControllerConfig and writeControllersConfig: what was there for the players and for most of the
\* hotkeys is removed, then what the pads connected have is written. N stands for a player.
Players == {
    Always({"input_enable_hotkey", "input_menu_toggle", "input_fps_toggle", "input_exit_emulator",
            "input_pause_toggle", "input_save_state", "input_load_state",
            "input_state_slot_decrease", "input_state_slot_increase", "input_ai_service",
            "input_reset", "input_rewind", "input_hold_fast_forward", "input_disk_eject_toggle",
            "input_disk_next", "input_disk_prev", "input_screenshot", "input_audio_mute",
            "input_grab_mouse_toggle"}),
    Either({"input_playerN_joypad_index", "input_playerN_analog_dpad_mode"}),
    Gone({"input_shader_prev", "input_shader_next"}),
    When("players", {"input_enable_hotkey_btn"})}

\* generateControllerConfig: one pad's buttons, directions and axes, a key of each sort; all start with
\* input_playerN_ and so are removed beforehand.
PlayerInputs == {
    Either({"input_playerN_a_btn", "input_playerN_l_btn", "input_playerN_start_btn", "input_playerN_up_btn",
            "input_playerN_l_y_minus_axis", "input_playerN_l_y_plus_axis",
            "input_playerN_gun_aux_a_btn", "input_playerN_gun_dpad_up_btn",
            "input_playerN_mouse_index"})}

\* createLibretroConfig: video, audio, paths and saves.
Basics == {
    Always({"quit_press_twice", "menu_show_restart_retroarch", "menu_show_load_content_animation",
            "menu_swap_ok_cancel_buttons", "network_cmd_enable", "network_cmd_port",
            "video_viewport_bias_x", "video_viewport_bias_y", "video_driver", "audio_driver",
            "audio_latency", "audio_volume", "video_threaded", "video_allow_rotate",
            "vrr_runloop_enable", "video_fullscreen_x", "video_fullscreen_y",
            "video_black_frame_insertion", "pause_nonactive", "cache_directory", "libretro_directory",
            "libretro_info_path", "video_fullscreen", "savefiles_in_content_dir",
            "savestates_in_content_dir"}),
    When("host", {"vulkan_gpu_index"}),
    When("option", {"video_rotation"})}

\* _configure_retroarch_save_location, called for the save files and for the states.
SaveLocations == {
    Always({"savefile_directory", "savestate_directory", "sort_savefiles_enable",
            "sort_savestates_enable", "sort_savefiles_by_content_enable",
            "sort_savestates_by_content_enable"})}

\* createLibretroConfig: the controllers of the cores, first part. The third player's device is set for
\* a few cores and kept for the others.
DevicesByCore == {
    Always({"builtin_imageviewer_enable", "input_joypad_driver", "input_driver", "input_max_users",
            "input_libretro_device_p1", "input_libretro_device_p2", "video_font_enable",
            "notification_show_remap_load", "load_dummy_on_core_shutdown"}),
    Either({"input_playerN_mouse_index", "input_playerN_analog_dpad_mode"}),
    When("game", {"aspect_ratio_index", "input_touch_vmouse_pointer", "input_touch_vmouse_touchpad",
          "system_directory", "input_libretro_device_p3", "input_libretro_device_p4"}),
    When("option", {"video_font_path"})}

\* createLibretroConfig: the controllers of the cores, second part, with the remaps for the pads of a
\* Megadrive and of a Nintendo 64. The core option wswan_rotate_display is saved into this file, where
\* no core reads it.
DevicesBySystem == {
    Either({"input_playerN_analog_dpad_mode", "input_playerN_a_btn"}),
    When("game", {"input_libretro_device_p1", "input_libretro_device_p2", "input_libretro_device_p3",
          "input_libretro_device_p4", "wswan_rotate_display"})}

\* createLibretroConfig: smoothing, shader, ratio, rewind, run-ahead, states and achievements. With a
\* shader that is "none" video_shader_enable is not saved at all.
ShaderRatioAchievements == {
    Always({"video_smooth", "aspect_ratio_index", "rewind_enable", "run_ahead_enabled",
            "preemptive_frames_enable", "run_ahead_frames", "run_ahead_secondary_instance",
            "video_frame_delay_auto", "cheevos_unlock_sound_enable", "savestate_auto_save",
            "savestate_auto_load", "savestate_auto_index", "savestate_max_keep", "state_slot",
            "cheevos_enable", "cheevos_hardcore_mode_enable", "cheevos_leaderboards_enable",
            "cheevos_verbose_enable", "cheevos_auto_screenshot", "cheevos_challenge_indicators",
            "cheevos_start_active", "cheevos_richpresence_enable"}),
    Either({"input_playerN_analog_dpad_mode"}),
    When("game", {"input_libretro_device_p1", "input_libretro_device_p2", "input_libretro_device_p3",
          "cheevos_username", "cheevos_password", "cheevos_token", "cheevos_cmd",
          "cheevos_test_unofficial"}),
    When("option", {"video_shader_enable", "video_aspect_ratio_auto", "cheevos_unlock_sound"})}

\* createLibretroConfig: the two screens of the handhelds that have them, netplay and the service of
\* translations.
DualScreensNetplay == {
    Always({"video_scale_integer", "width", "height", "fps_show", "input_rumble_gain",
            "assets_directory", "ai_service_enable"}),
    When("game", {"video_fullscreen", "video_windowed_fullscreen", "video_window_width",
          "video_window_height", "video_fullscreen_x", "video_fullscreen_y", "aspect_ratio_index",
          "custom_viewport_x", "custom_viewport_y", "custom_viewport_width", "custom_viewport_height"}),
    When("option", {"video_aspect_ratio_auto", "cheevos_hardcore_mode_enable", "netplay_mode",
          "netplay_ip_port", "netplay_delay_frames", "netplay_nickname", "netplay_client_swap_input",
          "netplay_ip_address", "netplay_password", "netplay_start_as_spectator",
          "netplay_spectate_password", "netplay_public_announce", "netplay_spectator_mode_enable",
          "netplay_use_mitm_server", "netplay_mitm_server", "netplay_custom_mitm_server",
          "menu_enable_widgets", "video_msg_bgcolor_enable", "video_font_size", "ai_service_mode",
          "ai_service_source_lang", "ai_service_url", "ai_service_pause"})}

\* createLibretroConfig: the device each player's gun becomes, and the mouse pointer.
GunsOfCores == {
    When("game", {"input_libretro_device_p1", "input_libretro_device_p3"}),
    When("players", {"input_overlay_show_mouse_cursor"})}

\* configureGunInputsForPlayer: a gun's buttons and its pedal, a key of each sort, all under
\* input_playerN_ and removed beforehand.
GunInputs == {
    Either({"input_playerN_mouse_index", "input_playerN_gun_trigger_mbtn",
            "input_playerN_gun_offscreen_shot_mbtn", "input_playerN_gun_start_mbtn",
            "input_playerN_gun_aux_a_mbtn", "input_playerN_gun_dpad_up_mbtn",
            "input_playerN_start_mbtn", "input_playerN_b_mbtn", "input_playerN_gun_aux_a",
            "input_playerN_gun_trigger_btn", "input_playerN_gun_trigger_axis"})}

\* writeBezelConfig, first part: off until every step has passed.
Bezel == {
    Always({"input_overlay_hide_in_menu", "input_overlay_enable", "video_message_pos_x",
            "video_message_pos_y"}),
    When("option", {"aspect_ratio_index", "video_aspect_ratio_auto", "input_overlay_scale",
          "input_overlay", "input_overlay_opacity", "video_viewport_bias_x", "video_viewport_bias_y"})}

\* writeBezelConfig, second part: where the picture and the messages go.
BezelViewport == {
    Always({"video_message_pos_x", "video_message_pos_y"}),
    When("option", {"custom_viewport_x", "custom_viewport_y", "custom_viewport_width",
          "custom_viewport_height"})}

\* createLibretroConfig: what the gun of a game changes in the options of the core, saved after the
\* user's own settings.
CoreOptionsOfGuns ==
    For({"bsnes"}, {When("players", {"bsnes_touchscreen_lightgun_superscope_reverse"})})
 @@ For({"snes9x"}, {When("players", {"snes9x_superscope_reverse_buttons"})})
 @@ For({"vice_x64"}, {When("players", {"vice_joyport_type"})})
 @@ For({"dolphin"}, {When("players", {"dolphin_ir_offset", "dolphin_ir_yaw", "dolphin_ir_pitch"})})

RetroarchCustom == Defaults \cup Paths \cup Players \cup PlayerInputs \cup Basics \cup SaveLocations
                   \cup DevicesByCore \cup DevicesBySystem \cup ShaderRatioAchievements
                   \cup DualScreensNetplay \cup GunsOfCores \cup GunInputs \cup Bezel \cup BezelViewport

\* writeLibretroConfig and writeLibretroConfigToFile: every setting retroarch.* of the user comes last.
RetroarchUnit == Custom(Strict("retroarchcustom.cfg", RetroarchCustom))
=============================================================================
