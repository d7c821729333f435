---------------------------- MODULE AsterixAltTypes ----------------------------
(* The enums and scalar classes of namespace asterix_alt (types.hpp).         *)
(* An enum is written in so many bits, and known values only are encoded      *)
(* and decoded.                                                               *)
EXTENDS Codec

time_of_day == <<Field("raw", 24)>>

detection_type == Codes(3, 0..7)
foe_fri_id == Codes(2, 0..3)
sensor_type == Codes(2, 0..3)
climb_descend_mode == Codes(2, 0..3)
comm_capability == Codes(3, 0..4)
flight_status == Codes(3, 0..7)
code_validated == Codes(1, 0..1)
code_garbled == Codes(1, 0..1)
code_source_smoothed == Codes(1, 0..1)
code_source_extracted == Codes(1, 0..1)
sim_indicator == Codes(1, 0..1)
test_target == Codes(1, 0..1)
report_source == Codes(1, 0..1)
rdp_chain == Codes(1, 0..1)
spi_presence == Codes(1, 0..1)
extended_range == Codes(1, 0..1)
x_pulse_presence == Codes(1, 0..1)
military_emergency == Codes(1, 0..1)
military_id == Codes(1, 0..1)
track_confidence == Codes(1, 0..1)
assoc_confidence == Codes(1, 0..1)
horiz_maneuver == Codes(1, 0..1)
track_lifetime == Codes(1, 0..1)
ghost_target == Codes(1, 0..1)
neighbor_support == Codes(1, 0..1)
track_coord_type == Codes(1, 0..1)
si_ii_capability == Codes(1, 0..1)
mode_s_service_cap == Codes(1, 0..1)
alt_resolution == Codes(1, 0..1)
aircraft_id_cap == Codes(1, 0..1)
doppler_validity == Codes(1, 0..1)
nat_origin_validity == Codes(1, 0..1)
cat007_di_msg_type == Codes(8, 0..8)
cat007_lockout == Codes(2, 0..2)
cat021_trajectory_change_cap == Codes(2, 0..3)
cat021_address_type == Codes(3, 0..7)
cat021_alt_report_cap == Codes(2, 0..3)
cat021_conf_level == Codes(2, 0..3)
cat021_full_second_ind == Codes(2, 0..3)
cat021_point_type == Codes(4, 0..11)
cat021_turn_direction == Codes(2, 0..3)
cat021_alt_source == Codes(2, 0..3)
cat021_priority_status == Codes(3, 0..7)
cat021_surv_status == Codes(2, 0..3)
cat021_mops_version == Codes(3, 0..2)
cat021_link_tech_type == Codes(3, 0..3)
cat021_threat_type_ind == Codes(2, 0..3)
cat021_range_exceeded == Codes(1, 0..1)
cat021_ias_mach == Codes(1, 0..1)
cat021_north_ref == Codes(1, 0..1)
cat253_msg_type == Codes(6, 1..21)
cat253_mp_detection == Codes(4, 0..1)
cat253_mp_level == Codes(4, 0..2)
cat253_sq_rx_channel == Codes(4, 0..2)
cat253_sq_ms_squitter == Codes(1, 0..1)
cat253_sq_m5_squitter == Codes(1, 0..1)
cat253_br_bit_type == Codes(4, 0..2)
cat253_br_success_state == Codes(4, 0..2)
cat253_br_antenna_general == Codes(4, 0..2)
cat253_br_antenna_scan_error == Codes(4, 0..2)
cat253_br_power_source_general == Codes(4, 0..2)
cat253_br_ctrl_unit_general == Codes(2, 0..2)
cat253_br_kb_crypto_comm == Codes(2, 0..2)
cat253_br_kb_rtc == Codes(2, 0..2)
cat253_br_kb_heat_warning == Codes(2, 0..2)
cat253_br_bottom_band_general == Codes(4, 0..2)
cat253_br_tb_ctrl_comm == Codes(2, 0..2)
cat253_br_tb_config_upload == Codes(2, 0..2)
cat253_br_vswr_general == Codes(2, 0..2)
cat253_br_vswr_sum == Codes(2, 0..2)
cat253_br_vswr_diff == Codes(2, 0..2)
cat253_br_vswr_omni == Codes(2, 0..2)
cat253_br_afb_general == Codes(4, 0..2)
cat253_br_afb_main_synth == Codes(2, 0..2)
cat253_br_afb_bit_synth == Codes(2, 0..2)
cat253_br_afb_total_ch == Codes(2, 0..2)
cat253_br_afb_diff_ch == Codes(2, 0..2)
cat253_br_afb_omni_ch == Codes(2, 0..2)
cat253_br_rfgyb_general == Codes(4, 0..2)
cat253_br_rfgyb_total_pwr == Codes(2, 0..2)
cat253_br_rfgyb_diff_pwr == Codes(2, 0..2)
cat253_br_rfgyb_omni_pwr == Codes(2, 0..2)
cat253_br_rfgyb_heat_warning == Codes(2, 0..2)
cat253_br_crypto_general == Codes(4, 0..2)
cat253_priority == Codes(1, 0..1)
cat253_direction == Codes(1, 0..1)
cat253_stale_ind == Codes(1, 0..1)
cat253_local_ctrl == Codes(1, 0..1)
cat253_data_incl == Codes(1, 0..1)
=============================================================================
