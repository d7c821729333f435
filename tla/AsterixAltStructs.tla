--------------------------- MODULE AsterixAltStructs ---------------------------
(* The layouts of the classes of namespace asterix_alt (structs.hpp),         *)
(* each the steps its encode() and its decode() take.                         *)
EXTENDS AsterixAltTypes

(* System Area Code / System Identification Code. *)
DataSourceId == <<Uint("sac", 8), Uint("sic", 8)>>

(* I007/040 - Measured Position in Slant Polar Co-ordinates. *)
Cat007I040 == <<
    Scaled(Uint("rho", 16), Dyadic(1, -8)), Scaled(Uint("theta", 16), Dyadic(45, -13))>>

(* I007/042 - Calculated Position in Cartesian Co-ordinates. *)
Cat007I042 == <<
    Scaled(SignedUint("x", 16), Dyadic(1, -7)),
    Scaled(SignedUint("y", 16), Dyadic(1, -7))>>

(* I007/161 - Track Number. *)
Cat007I161 == <<Spare(4), Field("track_number", 12)>>

(* I007/200 - Calculated Track Velocity in Polar Co-ordinates. *)
Cat007I200 == <<
    Scaled(Uint("ground_speed", 16), Dyadic(1, -14)),
    Scaled(Uint("heading", 16), Dyadic(45, -13))>>

(* I007/400 - Directed Interrogation Request Number. *)
Cat007I400 == <<Field("pri", 1), Field("request_number", 15)>>

(* I007/410 - Directed Interrogation Message Type. *)
Cat007I410 == <<Code("msg_type", cat007_di_msg_type)>>

(* I007/020 - Target Report Descriptor. *)
Cat007I020 == <<
    Code("typ", detection_type), Code("sim", sim_indicator), Code("rdp", rdp_chain),
    Code("spi", spi_presence), Code("rab", report_source),
    Fx(<<
      Code("tst", test_target), Code("err", extended_range),
      Code("xpp", x_pulse_presence), Code("me", military_emergency),
      Code("mi", military_id), Code("foe_fri", foe_fri_id), Spare(1)>>)>>

(* I007/030 - Warning/Error Conditions and Target Classification. *)
Cat007I030 == <<
    Field("we", 7), Fx(<<Field("we1", 7), Fx(<<Field("we2", 7), Spare(1)>>)>>)>>

(* I007/050 - Mode-2 Code in Octal Representation. *)
Cat007I050 == <<
    Code("v", code_validated), Code("g", code_garbled), Code("l", code_source_smoothed),
    Spare(1), Field("code", 12)>>

(* I007/055 - Mode-1 Code in Octal Representation. *)
Cat007I055 == <<
    Code("v", code_validated), Code("g", code_garbled), Code("l", code_source_smoothed),
    Field("code", 5)>>

(* I007/060 - Mode-2 Code Confidence Indicator. *)
Cat007I060 == <<Spare(4), Field("qxi", 12)>>

(* I007/065 - Mode-1 Code Confidence Indicator. *)
Cat007I065 == <<Spare(3), Field("qxi", 5)>>

(* I007/070 - Mode-3/A Code in Octal Representation. *)
Cat007I070 == <<
    Code("v", code_validated), Code("g", code_garbled),
    Code("l", code_source_extracted), Spare(1), Field("code", 12)>>

(* I007/080 - Mode-3/A Code Confidence Indicator. *)
Cat007I080 == <<Spare(4), Field("qxi", 12)>>

(* Mode 5 Summary. *)
Cat007I085Sum == <<
    Field("m5", 1), Field("id", 1), Field("da", 1), Field("m1", 1), Field("m2", 1),
    Field("m3", 1), Field("mc", 1), Spare(1)>>

(* Mode 5 PIN / National Origin / Mission Code. *)
Cat007I085Pmn == <<
    Spare(2), Field("pin", 14), Spare(3), Field("nat", 5), Spare(2), Field("mis", 6)>>

(* Mode 5 Reported Position. *)
Cat007I085Pos == <<
    Scaled(Signed("latitude", 24), Dyadic(45, -21)),
    Scaled(Signed("longitude", 24), Dyadic(45, -21))>>

(* Mode 5 GNSS-derived Altitude. *)
Cat007I085Ga == <<
    Spare(1), Code("res", alt_resolution), Scaled(Signed("ga", 14), Dyadic(25, 0))>>

(* Extended Mode 1 Code in Octal Representation. *)
Cat007I085Em1 == <<
    Field("v", 1), Code("g", code_garbled), Code("l", code_source_extracted), Spare(1),
    Field("em1", 12)>>

(* X Pulse Presence. *)
Cat007I085Xp == <<
    Spare(3), Field("x5", 1), Field("xc", 1), Field("x3", 1), Field("x2", 1),
    Field("x1", 1)>>

Cat007I085_sub ==
    <<Fspec(1, <<
      At(0, 7, Item("sum", Cat007I085Sum)), At(0, 6, Item("pmn", Cat007I085Pmn)),
      At(0, 5, Item("pos", Cat007I085Pos)), At(0, 4, Item("ga", Cat007I085Ga)),
      At(0, 3, Item("em1", Cat007I085Em1)),
      At(0, 2, Scaled(Signed("tos", 8), Dyadic(1, -7))),
      At(0, 1, Item("xp", Cat007I085Xp))>>)>>

(* I007/085 - Mode 5, Extended Mode 1 and X-Pulse. *)
Cat007I085 == <<Item("sub", Cat007I085_sub)>>

(* I007/090 - Flight Level in Binary Representation. *)
Cat007I090 == <<
    Code("v", code_validated), Code("g", code_garbled),
    Scaled(Signed("fl", 14), Dyadic(1, -2))>>

(* I007/100 - Mode-C Code and Code Confidence Indicator. *)
Cat007I100 == <<
    Code("v", code_validated), Code("g", code_garbled), Spare(2), Field("code", 12),
    Spare(4), Field("qxi", 12)>>

(* I007/110 - Height Measured by a 3D Radar. *)
Cat007I110 == <<Spare(2), Scaled(Signed("height_3d", 14), Dyadic(25, 0))>>

(* Calculated Doppler Speed. *)
Cat007I120Cal == <<Code("d", doppler_validity), Spare(5), Signed("cal", 10)>>

Cat007I120Rds_dopplerElement == <<
    SignedUint("dop", 16), Uint("amb", 16), Uint("frq", 16)>>

(* Raw Doppler Speed. *)
Cat007I120Rds == <<Array("doppler", Cat007I120Rds_dopplerElement)>>

Cat007I120_sub ==
    <<Fspec(1, <<
      At(0, 7, Item("cal", Cat007I120Cal)), At(0, 6, Item("rds", Cat007I120Rds))>>)>>

(* I007/120 - Radial Doppler Speed. *)
Cat007I120 == <<Item("sub", Cat007I120_sub)>>

Cat007I130_sub ==
    <<Fspec(1, <<
      At(0, 7, Uint("srl", 8)), At(0, 6, Uint("srr", 8)), At(0, 5, Signed("sam", 8)),
      At(0, 4, Uint("prl", 8)), At(0, 3, Signed("pam", 8)), At(0, 2, Signed("rpd", 8)),
      At(0, 1, Signed("apd", 8))>>)>>

(* I007/130 - Radar Plot Characteristics. *)
Cat007I130 == <<Item("sub", Cat007I130_sub)>>

(* I007/170 - Track Status. *)
Cat007I170 == <<
    Code("cnf", track_confidence), Code("rad", sensor_type),
    Code("dou", assoc_confidence), Code("mah", horiz_maneuver),
    Code("cdm", climb_descend_mode),
    Fx(<<
      Code("tre", track_lifetime), Code("gho", ghost_target),
      Code("sup", neighbor_support), Code("tcc", track_coord_type), Spare(3), Spare(1)>>)>>

(* I007/210 - Track Quality. *)
Cat007I210 == <<
    Scaled(Uint("sigma_x", 8), Dyadic(1, -7)),
    Scaled(Uint("sigma_y", 8), Dyadic(1, -7)),
    Scaled(Uint("sigma_v", 8), Dyadic(1, -14)),
    Scaled(Uint("sigma_h", 8), Dyadic(45, -9))>>

(* I007/230 - Communications/ACAS Capability and Flight Status. *)
Cat007I230 == <<
    Code("com", comm_capability), Code("stat", flight_status),
    Code("si", si_ii_capability), Spare(1), Code("mssc", mode_s_service_cap),
    Code("arc", alt_resolution), Code("aic", aircraft_id_cap), Field("b1a", 1),
    Field("b1b", 4)>>

Cat007I250_bdsElement == <<Field("mb_data", 56), Field("bds1", 4), Field("bds2", 4)>>

(* I007/250 - Mode S MB Data. *)
Cat007I250 == <<Array("bds", Cat007I250_bdsElement)>>

(* I007/260 - ACAS Resolution Advisory Report. *)
Cat007I260 == <<Field("mb_data", 56)>>

(* Truncation information. *)
Cat007I450Tr == <<Spare(4), Field("n", 1), Field("t", 1), Field("a", 1), Field("c", 1)>>

(* Mode S All Call Interrogations. *)
Cat007I450Ms == <<Spare(6), Code("lo", cat007_lockout), Uint("ms_nb", 8)>>

Cat007I450_sub ==
    <<Fspec(1, <<
      At(0, 7, Item("tr", Cat007I450Tr)), At(0, 6, Uint("m4_nb", 8)),
      At(0, 5, Uint("m5_nb", 8)), At(0, 4, Item("ms", Cat007I450Ms)),
      At(0, 3, Uint("mx_nb", 8)), At(0, 2, Uint("sms_nb", 8))>>)>>

(* I007/450 - Directed Interrogation Result. *)
Cat007I450 == <<Item("sub", Cat007I450_sub)>>

(* Required Interrogation Modes - Specific MIP. *)
Cat007I415Rim == <<
    Spare(7), Field("lo", 1), Field("ms_prob", 3), Field("m5_format", 5),
    Field("m4cs", 2), Field("m5s", 1), Field("sm5s", 1), Field("sm54", 1),
    Field("sm5c", 1), Field("sm53", 1), Field("sm52", 1), Field("sm51", 1), Spare(1),
    Field("m5", 1), Field("rcma", 1), Field("rcmc", 1), Field("cmc", 1),
    Field("cm3a", 1), Field("ms", 1), Field("m4s", 1), Field("smc", 1),
    Field("sm3a", 1), Field("sm2", 1), Field("sm1", 1), Field("mco", 1),
    Field("m3o", 1), Field("mcs", 1), Field("m3s", 1), Field("md", 1), Field("mc", 1),
    Field("mb", 1), Field("m4", 1), Field("m3a", 1), Field("m2", 1), Field("m1", 1)>>

Cat007I415_sub ==
    <<Fspec(1, <<
      At(0, 2, Item("rim", Cat007I415Rim)), At(0, 1, Uint("mipt", 8))>>)>>

(* I007/415 - Required Interrogation Modes. *)
Cat007I415 == <<Item("sub", Cat007I415_sub)>>

(* I007/420 - Directed Interrogation Window. *)
Cat007I420 == <<
    Scaled(Uint("rho_start", 16), Dyadic(1, -8)),
    Scaled(Uint("rho_end", 16), Dyadic(1, -8)),
    Scaled(Uint("theta_start", 16), Dyadic(45, -13)),
    Scaled(Uint("theta_end", 16), Dyadic(45, -13))>>

Cat007I440_registersElement == <<Field("bds1", 4), Field("bds2", 4)>>

(* I007/440 - Directed Interrogation BDS Register Request. *)
Cat007I440 == <<Array("registers", Cat007I440_registersElement)>>

(* I021/008 - Aircraft Operational Status. *)
Cat021I008 == <<
    Field("ra", 1), Code("tc", cat021_trajectory_change_cap), Field("ts", 1),
    Field("arv", 1), Field("cdtia", 1), Field("not_tcas", 1), Field("sa", 1)>>

(* I021/016 - Service Management. *)
Cat021I016 == <<Scaled(Uint("rp", 8), Dyadic(1, -1))>>

(* I021/040 - Target Report Descriptor. *)
Cat021I040 == <<
    Code("atp", cat021_address_type), Code("arc", cat021_alt_report_cap),
    Field("rc", 1), Code("rab", report_source),
    Fx(<<
      Field("dcr", 1), Field("gbs", 1), Code("sim", sim_indicator),
      Code("tst", test_target), Field("saa", 1), Code("cl", cat021_conf_level),
      Fx(<<
        Spare(1), Field("llc", 1), Field("ipc", 1), Field("nogo", 1), Field("cpr", 1),
        Field("ldpj", 1), Field("rcf", 1), Spare(1)>>)>>)>>

(* I021/070 - Mode 3/A Code in Octal Representation. *)
Cat021I070 == <<Spare(4), Field("code", 12)>>

(* I021/074 - Time of Message Reception of Position - High Precision. *)
Cat021I074 == <<
    Code("fsi", cat021_full_second_ind), Scaled(Field("time_frac", 30), Dyadic(1, -30))>>

(* I021/076 - Time of Message Reception of Velocity - High Precision. *)
Cat021I076 == <<
    Code("fsi", cat021_full_second_ind), Scaled(Field("time_frac", 30), Dyadic(1, -30))>>

(* I021/090 - Quality Indicators. *)
Cat021I090 == <<
    Field("nucr_nacv", 3), Field("nucp_nic", 4),
    Fx(<<
      Field("nic_baro", 1), Field("sil", 2), Field("nacp", 4),
      Fx(<<
        Spare(2), Field("sils", 1), Field("sda", 2), Field("gva", 2),
        Fx(<<Field("pic", 4), Spare(3), Spare(1)>>)>>)>>)>>

(* Trajectory Intent Status. *)
Cat021I110Tis == <<
    Field("nav", 1), Field("nvb", 1), Spare(5), Fx(<<Spare(7), Spare(1)>>)>>

Cat021I110Tid_pointsElement == <<
    Field("tca", 1), Field("nc", 1), Field("tcp_number", 6),
    Scaled(SignedUint("altitude", 16), Dyadic(5, 1)),
    Scaled(Signed("latitude", 24), Dyadic(45, -21)),
    Scaled(Signed("longitude", 24), Dyadic(45, -21)),
    Code("point_type", cat021_point_type), Code("td", cat021_turn_direction),
    Field("tra", 1), Field("toa", 1), Field("tov", 24),
    Scaled(Uint("ttr", 16), Hundredth)>>

(* Trajectory Intent Data. *)
Cat021I110Tid == <<Array("points", Cat021I110Tid_pointsElement)>>

Cat021I110_sub ==
    <<Fspec(1, <<
      At(0, 7, Item("tis", Cat021I110Tis)), At(0, 6, Item("tid", Cat021I110Tid))>>)>>

(* I021/110 - Trajectory Intent. *)
Cat021I110 == <<Item("sub", Cat021I110_sub)>>

(* I021/130 - Position in WGS-84 Co-ordinates. *)
Cat021I130 == <<
    Scaled(Signed("latitude", 24), Dyadic(45, -21)),
    Scaled(Signed("longitude", 24), Dyadic(45, -21))>>

(* I021/131 - High-Resolution Position in WGS-84 Co-ordinates. *)
Cat021I131 == <<
    Scaled(SignedUint("latitude", 32), Dyadic(45, -28)),
    Scaled(SignedUint("longitude", 32), Dyadic(45, -28))>>

(* I021/140 - Geometric Height. *)
Cat021I140 == <<Scaled(SignedUint("gh", 16), Dyadic(25, -2))>>

(* I021/145 - Flight Level. *)
Cat021I145 == <<Scaled(SignedUint("fl", 16), Dyadic(1, -2))>>

(* I021/146 - Selected Altitude. *)
Cat021I146 == <<
    Field("sas", 1), Code("source", cat021_alt_source),
    Scaled(Signed("altitude", 13), Dyadic(25, 0))>>

(* I021/148 - Final State Selected Altitude. *)
Cat021I148 == <<
    Field("mv", 1), Field("ah", 1), Field("am", 1),
    Scaled(Signed("altitude", 13), Dyadic(25, 0))>>

(* I021/150 - Air Speed. *)
Cat021I150 == <<Code("im", cat021_ias_mach), Field("air_speed", 15)>>

(* I021/151 - True Airspeed. *)
Cat021I151 == <<Code("re", cat021_range_exceeded), Field("true_air_speed", 15)>>

(* I021/152 - Magnetic Heading. *)
Cat021I152 == <<Scaled(Uint("magnetic_heading", 16), Dyadic(45, -13))>>

(* I021/155 - Barometric Vertical Rate. *)
Cat021I155 == <<
    Code("re", cat021_range_exceeded), Scaled(Signed("bvr", 15), Dyadic(25, -2))>>

(* I021/157 - Geometric Vertical Rate. *)
Cat021I157 == <<
    Code("re", cat021_range_exceeded), Scaled(Signed("gvr", 15), Dyadic(25, -2))>>

(* I021/160 - Airborne Ground Vector. *)
Cat021I160 == <<
    Code("re", cat021_range_exceeded),
    Scaled(Field("ground_speed", 15), Dyadic(1, -14)),
    Scaled(Uint("track_angle", 16), Dyadic(45, -13))>>

(* I021/161 - Track Number. *)
Cat021I161 == <<Spare(4), Field("track_number", 12)>>

(* I021/165 - Track Angle Rate. *)
Cat021I165 == <<Spare(6), Scaled(Signed("tar", 10), Dyadic(1, -5))>>

(* I021/200 - Target Status. *)
Cat021I200 == <<
    Field("icf", 1), Field("lnav", 1), Code("me", military_emergency),
    Code("ps", cat021_priority_status), Code("ss", cat021_surv_status)>>

(* I021/210 - MOPS Version. *)
Cat021I210 == <<
    Spare(1), Field("vns", 1), Code("vn", cat021_mops_version),
    Code("ltt", cat021_link_tech_type)>>

(* Wind Speed. *)
Cat021I220Ws == <<Uint("wind_speed", 16)>>

(* Wind Direction. *)
Cat021I220Wd == <<Uint("wind_direction", 16)>>

(* Temperature. *)
Cat021I220Tmp == <<Scaled(SignedUint("temperature", 16), Dyadic(1, -2))>>

Cat021I220_sub ==
    <<Fspec(1, <<
      At(0, 7, Item("ws", Cat021I220Ws)), At(0, 6, Item("wd", Cat021I220Wd)),
      At(0, 5, Item("tmp", Cat021I220Tmp)), At(0, 4, Uint("trb", 8))>>)>>

(* I021/220 - Met Information. *)
Cat021I220 == <<Item("sub", Cat021I220_sub)>>

(* I021/230 - Roll Angle. *)
Cat021I230 == <<Scaled(SignedUint("roll_angle", 16), Hundredth)>>

Cat021I250_bdsElement == <<Field("mb_data", 56), Field("bds1", 4), Field("bds2", 4)>>

(* I021/250 - Mode S MB Data. *)
Cat021I250 == <<Array("bds", Cat021I250_bdsElement)>>

(* I021/260 - ACAS Resolution Advisory Report. *)
Cat021I260 == <<
    Field("typ", 5), Field("styp", 3), Field("ara", 14), Field("rac", 4),
    Field("rat", 1), Field("mte", 1), Code("tti", cat021_threat_type_ind),
    Field("tid", 26)>>

(* I021/271 - Surface Capabilities and Characteristics. *)
Cat021I271 == <<
    Spare(2), Field("poa", 1), Field("cdti_s", 1), Field("b2_low", 1), Field("ras", 1),
    Field("ident", 1), Fx(<<Field("lw", 4), Spare(3), Spare(1)>>)>>

Cat021I295_sub ==
    <<Fspec(4, <<
      At(0, 7, Uint("aos", 8)), At(0, 6, Uint("trd", 8)), At(0, 5, Uint("m3a", 8)),
      At(0, 4, Uint("qi", 8)), At(0, 3, Uint("ti", 8)), At(0, 2, Uint("mam", 8)),
      At(0, 1, Uint("gh", 8)), At(1, 7, Uint("fl", 8)), At(1, 6, Uint("isa", 8)),
      At(1, 5, Uint("fsa", 8)), At(1, 4, Uint("as", 8)), At(1, 3, Uint("tas", 8)),
      At(1, 2, Uint("mh", 8)), At(1, 1, Uint("bvr", 8)), At(2, 7, Uint("gvr", 8)),
      At(2, 6, Uint("gv", 8)), At(2, 5, Uint("tar", 8)), At(2, 4, Uint("ti_age", 8)),
      At(2, 3, Uint("ts", 8)), At(2, 2, Uint("met", 8)), At(2, 1, Uint("roa", 8)),
      At(3, 7, Uint("ara", 8)), At(3, 6, Uint("scc", 8))>>)>>

(* I021/295 - Data Ages. *)
Cat021I295 == <<Item("sub", Cat021I295_sub)>>

(* Barometric Pressure Setting. *)
Cat021ReBps == <<Spare(4), Scaled(Field("bps", 12), Tenth)>>

(* Selected Heading. *)
Cat021ReSelh == <<
    Spare(4), Code("hrd", cat021_north_ref), Field("stat", 1),
    Scaled(Field("selh", 10), Dyadic(45, -6))>>

(* Navigation Mode. *)
Cat021ReNav == <<
    Field("ap", 1), Field("vn", 1), Field("ah", 1), Field("am", 1), Spare(4)>>

(* Surface Ground Vector. *)
Cat021ReSgv == <<
    Field("stp", 1), Field("hts", 1), Code("htt", cat021_north_ref),
    Code("hrd", cat021_north_ref), Scaled(Field("gss", 11), Dyadic(1, -3)),
    Fx(<<Scaled(Field("hgt", 7), Dyadic(45, -4)), Spare(1)>>)>>

(* Aircraft Status. *)
Cat021ReSta == <<Field("es", 1), Field("uat", 1), Spare(5), Fx(<<Spare(7), Spare(1)>>)>>

(* Military Extended Squitter Summary. *)
Cat021ReMesSum == <<
    Field("m5", 1), Field("id", 1), Field("da", 1), Field("m1", 1), Field("m2", 1),
    Field("m3", 1), Field("mc", 1), Field("po", 1)>>

(* Mode 5 PIN/National Origin. *)
Cat021ReMesPno == <<Spare(2), Field("pin", 14), Spare(5), Field("no", 11)>>

(* Extended Mode 1 Code in Octal Representation. *)
Cat021ReMesEm1 == <<
    Code("v", code_validated), Spare(1), Code("l", code_source_extracted), Spare(1),
    Field("em1", 12)>>

(* X Pulse Presence. *)
Cat021ReMesXp == <<
    Spare(2), Field("xp", 1), Field("x5", 1), Field("xc", 1), Field("x3", 1),
    Field("x2", 1), Field("x1", 1)>>

(* Figure of Merit. *)
Cat021ReMesFom == <<Spare(3), Field("fom", 5)>>

(* Mode 2 Code in Octal Representation. *)
Cat021ReMesM2 == <<
    Code("v", code_validated), Spare(1), Code("l", code_source_extracted), Spare(1),
    Field("mode2", 12)>>

Cat021ReMes_sub ==
    <<Fspec(1, <<
      At(0, 7, Item("sum", Cat021ReMesSum)), At(0, 6, Item("pno", Cat021ReMesPno)),
      At(0, 5, Item("em1", Cat021ReMesEm1)), At(0, 4, Item("xp", Cat021ReMesXp)),
      At(0, 3, Item("fom", Cat021ReMesFom)), At(0, 2, Item("m2", Cat021ReMesM2))>>)>>

(* MES - Military Extended Squitter. *)
Cat021ReMes == <<Item("sub", Cat021ReMes_sub)>>

(* I048/020 - Target Report Descriptor. *)
Cat048I020 == <<
    Code("typ", detection_type), Code("sim", sim_indicator), Code("rdp", rdp_chain),
    Code("spi", spi_presence), Code("rab", report_source),
    Fx(<<
      Code("tst", test_target), Code("err", extended_range),
      Code("xpp", x_pulse_presence), Code("me", military_emergency),
      Code("mi", military_id), Code("foe_fri", foe_fri_id), Spare(1)>>)>>

(* I048/030 - Warning/Error Conditions and Target Classification. *)
Cat048I030 == <<
    Field("we", 7), Fx(<<Field("we1", 7), Fx(<<Field("we2", 7), Spare(1)>>)>>)>>

(* I048/040 - Measured Position in Slant Polar Co-ordinates. *)
Cat048I040 == <<
    Scaled(Uint("rho", 16), Dyadic(1, -8)), Scaled(Uint("theta", 16), Dyadic(45, -13))>>

(* I048/042 - Calculated Position in Cartesian Co-ordinates. *)
Cat048I042 == <<
    Scaled(SignedUint("x", 16), Dyadic(1, -7)),
    Scaled(SignedUint("y", 16), Dyadic(1, -7))>>

(* I048/050 - Mode-2 Code in Octal Representation. *)
Cat048I050 == <<
    Code("v", code_validated), Code("g", code_garbled), Code("l", code_source_smoothed),
    Spare(1), Field("code", 12)>>

(* I048/055 - Mode-1 Code in Octal Representation. *)
Cat048I055 == <<
    Code("v", code_validated), Code("g", code_garbled), Code("l", code_source_smoothed),
    Field("code", 5)>>

(* I048/060 - Mode-2 Code Confidence Indicator. *)
Cat048I060 == <<Spare(4), Field("qxi", 12)>>

(* I048/065 - Mode-1 Code Confidence Indicator. *)
Cat048I065 == <<Spare(3), Field("qxi", 5)>>

(* I048/070 - Mode-3/A Code in Octal Representation. *)
Cat048I070 == <<
    Code("v", code_validated), Code("g", code_garbled),
    Code("l", code_source_extracted), Spare(1), Field("code", 12)>>

(* I048/080 - Mode-3/A Code Confidence Indicator. *)
Cat048I080 == <<Spare(4), Field("qxi", 12)>>

(* I048/090 - Flight Level in Binary Representation. *)
Cat048I090 == <<
    Code("v", code_validated), Code("g", code_garbled),
    Scaled(Signed("fl", 14), Dyadic(1, -2))>>

(* I048/100 - Mode-C Code and Code Confidence Indicator. *)
Cat048I100 == <<
    Code("v", code_validated), Code("g", code_garbled), Spare(2), Field("code", 12),
    Spare(4), Field("qxi", 12)>>

(* I048/110 - Height Measured by a 3D Radar. *)
Cat048I110 == <<Spare(2), Scaled(Signed("height_3d", 14), Dyadic(25, 0))>>

(* Calculated Doppler Speed. *)
Cat048I120Cal == <<Code("d", doppler_validity), Spare(5), Signed("cal", 10)>>

Cat048I120Rds_dopplerElement == <<Uint("dop", 16), Uint("amb", 16), Uint("frq", 16)>>

(* Raw Doppler Speed. *)
Cat048I120Rds == <<Array("doppler", Cat048I120Rds_dopplerElement)>>

Cat048I120_sub ==
    <<Fspec(1, <<
      At(0, 7, Item("cal", Cat048I120Cal)), At(0, 6, Item("rds", Cat048I120Rds))>>)>>

(* I048/120 - Radial Doppler Speed. *)
Cat048I120 == <<Item("sub", Cat048I120_sub)>>

Cat048I130_sub ==
    <<Fspec(1, <<
      At(0, 7, Uint("srl", 8)), At(0, 6, Uint("srr", 8)), At(0, 5, Signed("sam", 8)),
      At(0, 4, Uint("prl", 8)), At(0, 3, Signed("pam", 8)), At(0, 2, Signed("rpd", 8)),
      At(0, 1, Signed("apd", 8))>>)>>

(* I048/130 - Radar Plot Characteristics. *)
Cat048I130 == <<Item("sub", Cat048I130_sub)>>

(* I048/161 - Track Number. *)
Cat048I161 == <<Spare(4), Field("track_number", 12)>>

(* I048/170 - Track Status. *)
Cat048I170 == <<
    Code("cnf", track_confidence), Code("rad", sensor_type),
    Code("dou", assoc_confidence), Code("mah", horiz_maneuver),
    Code("cdm", climb_descend_mode),
    Fx(<<
      Code("tre", track_lifetime), Code("gho", ghost_target),
      Code("sup", neighbor_support), Code("tcc", track_coord_type), Spare(3), Spare(1)>>)>>

(* I048/200 - Calculated Track Velocity in Polar Co-ordinates. *)
Cat048I200 == <<
    Scaled(Uint("ground_speed", 16), Dyadic(1, -14)),
    Scaled(Uint("heading", 16), Dyadic(45, -13))>>

(* I048/210 - Track Quality. *)
Cat048I210 == <<
    Scaled(Uint("sigma_x", 8), Dyadic(1, -7)),
    Scaled(Uint("sigma_y", 8), Dyadic(1, -7)),
    Scaled(Uint("sigma_v", 8), Dyadic(1, -14)),
    Scaled(Uint("sigma_h", 8), Dyadic(45, -9))>>

(* I048/230 - Communications/ACAS Capability and Flight Status. *)
Cat048I230 == <<
    Code("com", comm_capability), Code("stat", flight_status),
    Code("si", si_ii_capability), Spare(1), Code("mssc", mode_s_service_cap),
    Code("arc", alt_resolution), Code("aic", aircraft_id_cap), Field("b1a", 1),
    Field("b1b", 4)>>

Cat048I250_bdsElement == <<Field("mb_data", 56), Field("bds1", 4), Field("bds2", 4)>>

(* I048/250 - Mode S MB Data. *)
Cat048I250 == <<Array("bds", Cat048I250_bdsElement)>>

(* I048/260 - ACAS Resolution Advisory Report. *)
Cat048I260 == <<Field("mb_data", 56)>>

(* Mode 5 Summary. *)
Cat048ReSum == <<
    Field("m5", 1), Field("id", 1), Field("da", 1), Field("m1", 1), Field("m2", 1),
    Field("m3", 1), Field("mc", 1), Spare(1)>>

(* Mode 5 GNSS-derived Position. *)
Cat048RePos == <<
    Scaled(Signed("lat", 24), Dyadic(45, -21)),
    Scaled(Signed("lon", 24), Dyadic(45, -21))>>

(* Mode 5 GNSS-derived Altitude. *)
Cat048ReGa == <<
    Spare(1), Code("res", alt_resolution), Scaled(Signed("ga", 14), Dyadic(25, 0))>>

(* Extended Mode 1 Code in Octal Representation. *)
Cat048ReEm1 == <<
    Code("v", code_validated), Code("g", code_garbled),
    Code("l", code_source_extracted), Spare(1), Field("em1", 12)>>

(* X Pulse Presence. *)
Cat048ReXp == <<
    Spare(2), Field("xp", 1), Field("x5", 1), Field("xc", 1), Field("x3", 1),
    Field("x2", 1), Field("x1", 1)>>

(* Mode 5 PIN/National Origin/Mission Code. *)
Cat048ReMd5Pmn == <<
    Spare(2), Field("pin", 14), Spare(2), Code("nav", nat_origin_validity),
    Field("nat", 5), Spare(2), Field("mis", 6)>>

Cat048ReMd5_sub ==
    <<Fspec(1, <<
      At(0, 7, Item("sum", Cat048ReSum)), At(0, 6, Item("pmn", Cat048ReMd5Pmn)),
      At(0, 5, Item("pos", Cat048RePos)), At(0, 4, Item("ga", Cat048ReGa)),
      At(0, 3, Item("em1", Cat048ReEm1)),
      At(0, 2, Scaled(Signed("tos", 8), Dyadic(1, -7))),
      At(0, 1, Item("xp", Cat048ReXp))>>)>>

(* MD5 - Mode 5 Data reports & Extended Mode 2 Code. *)
Cat048ReMd5 == <<Item("sub", Cat048ReMd5_sub)>>

(* Mode 5 PIN/National Origin. *)
Cat048ReM5nPmn == <<
    Spare(2), Field("pin", 14), Spare(4), Code("nov", nat_origin_validity),
    Field("no", 11)>>

(* Figure of Merit. *)
Cat048ReM5nFom == <<Spare(3), Field("fom", 5)>>

Cat048ReM5n_sub ==
    <<Fspec(2, <<
      At(0, 7, Item("sum", Cat048ReSum)), At(0, 6, Item("pmn", Cat048ReM5nPmn)),
      At(0, 5, Item("pos", Cat048RePos)), At(0, 4, Item("ga", Cat048ReGa)),
      At(0, 3, Item("em1", Cat048ReEm1)),
      At(0, 2, Scaled(Signed("tos", 8), Dyadic(1, -7))),
      At(0, 1, Item("xp", Cat048ReXp)), At(1, 7, Item("fom", Cat048ReM5nFom))>>)>>

(* M5N - Mode 5 Data reports, New Format. *)
Cat048ReM5n == <<Item("sub", Cat048ReM5n_sub)>>

(* Extended Mode 4 Report. *)
Cat048ReM4e == <<Spare(5), Code("foe_fri", foe_fri_id), Fx(<<Spare(7), Spare(1)>>)>>

Cat048ReRpc_sub ==
    <<Fspec(1, <<
      At(0, 7, Uint("sco", 8)), At(0, 6, Scaled(Uint("scr", 16), Tenth)),
      At(0, 5, Scaled(Uint("rw", 16), Dyadic(1, -8))),
      At(0, 4, Scaled(Uint("ar", 16), Dyadic(1, -8)))>>)>>

(* RPC - Radar Plot Characteristics. *)
Cat048ReRpc == <<Item("sub", Cat048ReRpc_sub)>>

(* Extended Range Report. *)
Cat048ReErr == <<Scaled(Field("rho", 24), Dyadic(1, -8))>>

Cat253I025_destinationsElement == <<
    Uint("sac", 8), Uint("sic", 8), Uint("local_id", 8)>>

(* I253/025 - Data Destination Identifier and Local Data Destination ID. *)
Cat253I025 == <<Array("destinations", Cat253I025_destinationsElement)>>

(* I253/035 - Data Origin Identifier. *)
Cat253I035 == <<Uint("oac", 8), Uint("oic", 8), Uint("local_id", 8)>>

(* I253/040 - Message Type Identifier. *)
Cat253I040 == <<
    Code("pi", cat253_priority), Code("d", cat253_direction),
    Code("mit", cat253_msg_type)>>

Cat253I050_sequencesElement == <<Uint("msid", 16)>>

(* I253/050 - Message Sequence Identifier. *)
Cat253I050 == <<Array("sequences", Cat253I050_sequencesElement)>>

(* I253/060 - Blocking Information. *)
Cat253I060 == <<Uint("tnb", 8), Uint("bn", 8)>>

(* I253/080 - Application Data Structure. *)
Cat253I080 == <<
    Uint("start_index", 16), Uint("count", 8), Code("stale", cat253_stale_ind),
    Code("sim", sim_indicator), Code("local_ctrl", cat253_local_ctrl),
    Code("data_included", cat253_data_incl), Spare(3),
    Fx(<<
      Uint("start_index1", 16), Uint("count1", 8), Code("stale1", cat253_stale_ind),
      Code("sim1", sim_indicator), Code("local_ctrl1", cat253_local_ctrl),
      Code("data_included1", cat253_data_incl), Spare(3),
      Fx(<<
        Uint("start_index2", 16), Uint("count2", 8), Code("stale2", cat253_stale_ind),
        Code("sim2", sim_indicator), Code("local_ctrl2", cat253_local_ctrl),
        Code("data_included2", cat253_data_incl), Spare(3),
        Fx(<<
          Uint("start_index3", 16), Uint("count3", 8), Code("stale3", cat253_stale_ind),
          Code("sim3", sim_indicator), Code("local_ctrl3", cat253_local_ctrl),
          Code("data_included3", cat253_data_incl), Spare(3), Spare(1)>>)>>)>>)>>

Cat253I090_data_itemsElement == <<Bytes("data", 16)>>

(* I253/090 - Application Data. *)
Cat253I090 == <<Array("data_items", Cat253I090_data_itemsElement)>>

(* I253/100 variant. *)
Cat253Multipath == <<
    Code("detection", cat253_mp_detection), Code("level", cat253_mp_level)>>

(* I253/100 variant. *)
Cat253Squitter == <<
    Code("rx_channel", cat253_sq_rx_channel), Spare(2),
    Code("ms_squitter", cat253_sq_ms_squitter),
    Code("m5_squitter", cat253_sq_m5_squitter)>>

(* I253/100 variant. *)
Cat253BitReport == <<
    Code("bit_type", cat253_br_bit_type),
    Code("success_state", cat253_br_success_state),
    Code("antenna_general", cat253_br_antenna_general),
    Code("antenna_scan_error", cat253_br_antenna_scan_error), Spare(4),
    Code("power_source_general", cat253_br_power_source_general),
    Code("ctrl_unit_general", cat253_br_ctrl_unit_general),
    Code("kb_crypto_comm", cat253_br_kb_crypto_comm), Code("kb_rtc", cat253_br_kb_rtc),
    Code("kb_heat_warning", cat253_br_kb_heat_warning),
    Code("bottom_band_general", cat253_br_bottom_band_general),
    Code("tb_ctrl_comm", cat253_br_tb_ctrl_comm),
    Code("tb_config_upload", cat253_br_tb_config_upload),
    Code("vswr_general", cat253_br_vswr_general), Code("vswr_sum", cat253_br_vswr_sum),
    Code("vswr_diff", cat253_br_vswr_diff), Code("vswr_omni", cat253_br_vswr_omni),
    Spare(2), Code("afb_general", cat253_br_afb_general),
    Code("afb_main_synth", cat253_br_afb_main_synth),
    Code("afb_bit_synth", cat253_br_afb_bit_synth),
    Code("afb_total_ch", cat253_br_afb_total_ch),
    Code("afb_diff_ch", cat253_br_afb_diff_ch),
    Code("afb_omni_ch", cat253_br_afb_omni_ch),
    Code("rfgyb_general", cat253_br_rfgyb_general),
    Code("rfgyb_total_pwr", cat253_br_rfgyb_total_pwr),
    Code("rfgyb_diff_pwr", cat253_br_rfgyb_diff_pwr),
    Code("rfgyb_omni_pwr", cat253_br_rfgyb_omni_pwr),
    Code("rfgyb_heat_warning", cat253_br_rfgyb_heat_warning),
    Code("crypto_general", cat253_br_crypto_general), Spare(48)>>
=============================================================================
