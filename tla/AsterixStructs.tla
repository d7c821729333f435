----------------------------- MODULE AsterixStructs -----------------------------
(* The layouts of the classes of namespace asterix (structs.hpp),             *)
(* each the steps its encode() and its decode() take.                         *)
EXTENDS AsterixTypes

(* System Area Code / System Identification Code. *)
DataSourceId == <<Uint("sac", 8), Uint("sic", 8)>>

(* I007/040 - Measured Position in Slant Polar Co-ordinates. *)
Cat007I040 == <<
    Scaled(Uint("rho", 16), Dyadic(1, -8)), Scaled(Uint("theta", 16), Dyadic(45, -13))>>

(* I007/042 - Calculated Position in Cartesian Co-ordinates. *)
Cat007I042 == <<
    Scaled(SignedUint("x", 16), Dyadic(1, -7)),
    Scaled(SignedUint("y", 16), Dyadic(1, -7))>>

(* I007/161 - Track Number. *)
Cat007I161 == <<Spare(4), Field("trackNumber", 12)>>

(* I007/200 - Calculated Track Velocity in Polar Co-ordinates. *)
Cat007I200 == <<
    Scaled(Uint("groundSpeed", 16), Dyadic(1, -14)),
    Scaled(Uint("heading", 16), Dyadic(45, -13))>>

(* I007/400 - Directed Interrogation Request Number. *)
Cat007I400 == <<Field("pri", 1), Field("requestNumber", 15)>>

(* I007/410 - Directed Interrogation Message Type. *)
Cat007I410 == <<Code("msgType", Cat007DiMsgType)>>

(* I007/020 - Target Report Descriptor. *)
Cat007I020 == <<
    Code("typ", DetectionType), Code("sim", SimIndicator), Code("rdp", RdpChain),
    Code("spi", SpiPresence), Code("rab", ReportSource),
    Fx(<<
      Code("tst", TestTarget), Code("err", ExtendedRange), Code("xpp", XPulsePresence),
      Code("me", MilitaryEmergency), Code("mi", MilitaryId), Code("foeFri", FoeFriId),
      Spare(1)>>)>>

(* I007/030 - Warning/Error Conditions and Target Classification. *)
Cat007I030 == <<
    Field("we", 7), Fx(<<Field("we1", 7), Fx(<<Field("we2", 7), Spare(1)>>)>>)>>

(* I007/050 - Mode-2 Code in Octal Representation. *)
Cat007I050 == <<
    Code("v", CodeValidated), Code("g", CodeGarbled), Code("l", CodeSourceSmoothed),
    Spare(1), Field("code", 12)>>

(* I007/055 - Mode-1 Code in Octal Representation. *)
Cat007I055 == <<
    Code("v", CodeValidated), Code("g", CodeGarbled), Code("l", CodeSourceSmoothed),
    Field("code", 5)>>

(* I007/060 - Mode-2 Code Confidence Indicator. *)
Cat007I060 == <<Spare(4), Field("qxi", 12)>>

(* I007/065 - Mode-1 Code Confidence Indicator. *)
Cat007I065 == <<Spare(3), Field("qxi", 5)>>

(* I007/070 - Mode-3/A Code in Octal Representation. *)
Cat007I070 == <<
    Code("v", CodeValidated), Code("g", CodeGarbled), Code("l", CodeSourceExtracted),
    Spare(1), Field("code", 12)>>

(* I007/080 - Mode-3/A Code Confidence Indicator. *)
Cat007I080 == <<Spare(4), Field("qxi", 12)>>

(* Mode 5 Summary. *)
Cat007I085Sum == <<
    Field("m5", 1), Field("id", 1), Field("da", 1), Field("m1", 1), Field("m2", 1),
    Field("m3", 1), Field("mc", 1), Spare(1)>>

(* Mode 5 PIN / National Origin / Mission Code. *)
Cat007I085Pmn == <<
    Spare(2), Field("pin", 14), Spare(3), Field("nat", 5), Spare(2), Field("mis", 6)>>

(* Mode 5 Reported Position. *)
Cat007I085Pos == <<
    Scaled(Signed("latitude", 24), Dyadic(45, -21)),
    Scaled(Signed("longitude", 24), Dyadic(45, -21))>>

(* Mode 5 GNSS-derived Altitude. *)
Cat007I085Ga == <<
    Spare(1), Code("res", AltResolution), Scaled(Signed("ga", 14), Dyadic(25, 0))>>

(* Extended Mode 1 Code in Octal Representation. *)
Cat007I085Em1 == <<
    Field("v", 1), Code("g", CodeGarbled), Code("l", CodeSourceExtracted), Spare(1),
    Field("em1", 12)>>

(* X Pulse Presence. *)
Cat007I085Xp == <<
    Spare(3), Field("x5", 1), Field("xc", 1), Field("x3", 1), Field("x2", 1),
    Field("x1", 1)>>

Cat007I085_sub ==
    <<Fspec(1, <<
      At(0, 7, Item("sum", Cat007I085Sum)), At(0, 6, Item("pmn", Cat007I085Pmn)),
      At(0, 5, Item("pos", Cat007I085Pos)), At(0, 4, Item("ga", Cat007I085Ga)),
      At(0, 3, Item("em1", Cat007I085Em1)),
      At(0, 2, Scaled(Signed("tos", 8), Dyadic(1, -7))),
      At(0, 1, Item("xp", Cat007I085Xp))>>)>>

(* I007/085 - Mode 5, Extended Mode 1 and X-Pulse. *)
Cat007I085 == <<Item("sub", Cat007I085_sub)>>

(* I007/090 - Flight Level in Binary Representation. *)
Cat007I090 == <<
    Code("v", CodeValidated), Code("g", CodeGarbled),
    Scaled(Signed("fl", 14), Dyadic(1, -2))>>

(* I007/100 - Mode-C Code and Code Confidence Indicator. *)
Cat007I100 == <<
    Code("v", CodeValidated), Code("g", CodeGarbled), Spare(2), Field("code", 12),
    Spare(4), Field("qxi", 12)>>

(* I007/110 - Height Measured by a 3D Radar. *)
Cat007I110 == <<Spare(2), Scaled(Signed("height3d", 14), Dyadic(25, 0))>>

(* Calculated Doppler Speed. *)
Cat007I120Cal == <<Code("d", DopplerValidity), Spare(5), Signed("cal", 10)>>

Cat007I120Rds_dopplerElement == <<
    SignedUint("dop", 16), Uint("amb", 16), Uint("frq", 16)>>

(* Raw Doppler Speed. *)
Cat007I120Rds == <<Array("doppler", Cat007I120Rds_dopplerElement)>>

Cat007I120_sub ==
    <<Fspec(1, <<
      At(0, 7, Item("cal", Cat007I120Cal)), At(0, 6, Item("rds", Cat007I120Rds))>>)>>

(* I007/120 - Radial Doppler Speed. *)
Cat007I120 == <<Item("sub", Cat007I120_sub)>>

Cat007I130_sub ==
    <<Fspec(1, <<
      At(0, 7, Uint("srl", 8)), At(0, 6, Uint("srr", 8)), At(0, 5, Signed("sam", 8)),
      At(0, 4, Uint("prl", 8)), At(0, 3, Signed("pam", 8)), At(0, 2, Signed("rpd", 8)),
      At(0, 1, Signed("apd", 8))>>)>>

(* I007/130 - Radar Plot Characteristics. *)
Cat007I130 == <<Item("sub", Cat007I130_sub)>>

(* I007/170 - Track Status. *)
Cat007I170 == <<
    Code("cnf", TrackConfidence), Code("rad", SensorType), Code("dou", AssocConfidence),
    Code("mah", HorizManeuver), Code("cdm", ClimbDescendMode),
    Fx(<<
      Code("tre", TrackLifetime), Code("gho", GhostTarget),
      Code("sup", NeighborSupport), Code("tcc", TrackCoordType), Spare(3), Spare(1)>>)>>

(* I007/210 - Track Quality. *)
Cat007I210 == <<
    Scaled(Uint("sigmaX", 8), Dyadic(1, -7)), Scaled(Uint("sigmaY", 8), Dyadic(1, -7)),
    Scaled(Uint("sigmaV", 8), Dyadic(1, -14)), Scaled(Uint("sigmaH", 8), Dyadic(45, -9))>>

(* I007/230 - Communications/ACAS Capability and Flight Status. *)
Cat007I230 == <<
    Code("com", CommCapability), Code("stat", FlightStatus), Code("si", SiIiCapability),
    Spare(1), Code("mssc", ModeSServiceCap), Code("arc", AltResolution),
    Code("aic", AircraftIdCap), Field("b1a", 1), Field("b1b", 4)>>

Cat007I250_bdsElement == <<Field("mbData", 56), Field("bds1", 4), Field("bds2", 4)>>

(* I007/250 - Mode S MB Data. *)
Cat007I250 == <<Array("bds", Cat007I250_bdsElement)>>

(* I007/260 - ACAS Resolution Advisory Report. *)
Cat007I260 == <<Field("mbData", 56)>>

(* Truncation information. *)
Cat007I450Tr == <<Spare(4), Field("n", 1), Field("t", 1), Field("a", 1), Field("c", 1)>>

(* Mode S All Call Interrogations. *)
Cat007I450Ms == <<Spare(6), Code("lo", Cat007Lockout), Uint("msNb", 8)>>

Cat007I450_sub ==
    <<Fspec(1, <<
      At(0, 7, Item("tr", Cat007I450Tr)), At(0, 6, Uint("m4Nb", 8)),
      At(0, 5, Uint("m5Nb", 8)), At(0, 4, Item("ms", Cat007I450Ms)),
      At(0, 3, Uint("mxNb", 8)), At(0, 2, Uint("smsNb", 8))>>)>>

(* I007/450 - Directed Interrogation Result. *)
Cat007I450 == <<Item("sub", Cat007I450_sub)>>

(* Required Interrogation Modes - Specific MIP. *)
Cat007I415Rim == <<
    Spare(7), Field("lo", 1), Field("msProb", 3), Field("m5Format", 5),
    Field("m4cs", 2), Field("m5s", 1), Field("sm5s", 1), Field("sm54", 1),
    Field("sm5c", 1), Field("sm53", 1), Field("sm52", 1), Field("sm51", 1), Spare(1),
    Field("m5", 1), Field("rcma", 1), Field("rcmc", 1), Field("cmc", 1),
    Field("cm3a", 1), Field("ms", 1), Field("m4s", 1), Field("smc", 1),
    Field("sm3a", 1), Field("sm2", 1), Field("sm1", 1), Field("mco", 1),
    Field("m3o", 1), Field("mcs", 1), Field("m3s", 1), Field("md", 1), Field("mc", 1),
    Field("mb", 1), Field("m4", 1), Field("m3a", 1), Field("m2", 1), Field("m1", 1)>>

Cat007I415_sub ==
    <<Fspec(1, <<
      At(0, 2, Item("rim", Cat007I415Rim)), At(0, 1, Uint("mipt", 8))>>)>>

(* I007/415 - Required Interrogation Modes. *)
Cat007I415 == <<Item("sub", Cat007I415_sub)>>

(* I007/420 - Directed Interrogation Window. *)
Cat007I420 == <<
    Scaled(Uint("rhoStart", 16), Dyadic(1, -8)),
    Scaled(Uint("rhoEnd", 16), Dyadic(1, -8)),
    Scaled(Uint("thetaStart", 16), Dyadic(45, -13)),
    Scaled(Uint("thetaEnd", 16), Dyadic(45, -13))>>

Cat007I440_registersElement == <<Field("bds1", 4), Field("bds2", 4)>>

(* I007/440 - Directed Interrogation BDS Register Request. *)
Cat007I440 == <<Array("registers", Cat007I440_registersElement)>>

(* I021/008 - Aircraft Operational Status. *)
Cat021I008 == <<
    Field("ra", 1), Code("tc", Cat021TrajectoryChangeCap), Field("ts", 1),
    Field("arv", 1), Field("cdtia", 1), Field("notTcas", 1), Field("sa", 1)>>

(* I021/016 - Service Management. *)
Cat021I016 == <<Scaled(Uint("rp", 8), Dyadic(1, -1))>>

(* I021/040 - Target Report Descriptor. *)
Cat021I040 == <<
    Code("atp", Cat021AddressType), Code("arc", Cat021AltReportCap), Field("rc", 1),
    Code("rab", ReportSource),
    Fx(<<
      Field("dcr", 1), Field("gbs", 1), Code("sim", SimIndicator),
      Code("tst", TestTarget), Field("saa", 1), Code("cl", Cat021ConfLevel),
      Fx(<<
        Spare(1), Field("llc", 1), Field("ipc", 1), Field("nogo", 1), Field("cpr", 1),
        Field("ldpj", 1), Field("rcf", 1), Spare(1)>>)>>)>>

(* I021/070 - Mode 3/A Code in Octal Representation. *)
Cat021I070 == <<Spare(4), Field("code", 12)>>

(* I021/074 - Time of Message Reception of Position - High Precision. *)
Cat021I074 == <<
    Code("fsi", Cat021FullSecondInd), Scaled(Field("timeFrac", 30), Dyadic(1, -30))>>

(* I021/076 - Time of Message Reception of Velocity - High Precision. *)
Cat021I076 == <<
    Code("fsi", Cat021FullSecondInd), Scaled(Field("timeFrac", 30), Dyadic(1, -30))>>

(* I021/090 - Quality Indicators. *)
Cat021I090 == <<
    Field("nucrNacv", 3), Field("nucpNic", 4),
    Fx(<<
      Field("nicBaro", 1), Field("sil", 2), Field("nacp", 4),
      Fx(<<
        Spare(2), Field("sils", 1), Field("sda", 2), Field("gva", 2),
        Fx(<<Field("pic", 4), Spare(3), Spare(1)>>)>>)>>)>>

(* Trajectory Intent Status. *)
Cat021I110Tis == <<
    Field("nav", 1), Field("nvb", 1), Spare(5), Fx(<<Spare(7), Spare(1)>>)>>

Cat021I110Tid_pointsElement == <<
    Field("tca", 1), Field("nc", 1), Field("tcpNumber", 6),
    Scaled(SignedUint("altitude", 16), Dyadic(5, 1)),
    Scaled(Signed("latitude", 24), Dyadic(45, -21)),
    Scaled(Signed("longitude", 24), Dyadic(45, -21)),
    Code("pointType", Cat021PointType), Code("td", Cat021TurnDirection),
    Field("tra", 1), Field("toa", 1), Field("tov", 24),
    Scaled(Uint("ttr", 16), Hundredth)>>

(* Trajectory Intent Data. *)
Cat021I110Tid == <<Array("points", Cat021I110Tid_pointsElement)>>

Cat021I110_sub ==
    <<Fspec(1, <<
      At(0, 7, Item("tis", Cat021I110Tis)), At(0, 6, Item("tid", Cat021I110Tid))>>)>>

(* I021/110 - Trajectory Intent. *)
Cat021I110 == <<Item("sub", Cat021I110_sub)>>

(* I021/130 - Position in WGS-84 Co-ordinates. *)
Cat021I130 == <<
    Scaled(Signed("latitude", 24), Dyadic(45, -21)),
    Scaled(Signed("longitude", 24), Dyadic(45, -21))>>

(* I021/131 - High-Resolution Position in WGS-84 Co-ordinates. *)
Cat021I131 == <<
    Scaled(SignedUint("latitude", 32), Dyadic(45, -28)),
    Scaled(SignedUint("longitude", 32), Dyadic(45, -28))>>

(* I021/140 - Geometric Height. *)
Cat021I140 == <<Scaled(SignedUint("gh", 16), Dyadic(25, -2))>>

(* I021/145 - Flight Level. *)
Cat021I145 == <<Scaled(SignedUint("fl", 16), Dyadic(1, -2))>>

(* I021/146 - Selected Altitude. *)
Cat021I146 == <<
    Field("sas", 1), Code("source", Cat021AltSource),
    Scaled(Signed("altitude", 13), Dyadic(25, 0))>>

(* I021/148 - Final State Selected Altitude. *)
Cat021I148 == <<
    Field("mv", 1), Field("ah", 1), Field("am", 1),
    Scaled(Signed("altitude", 13), Dyadic(25, 0))>>

(* I021/150 - Air Speed. *)
Cat021I150 == <<Code("im", Cat021IasMach), Field("airSpeed", 15)>>

(* I021/151 - True Airspeed. *)
Cat021I151 == <<Code("re", Cat021RangeExceeded), Field("trueAirSpeed", 15)>>

(* I021/152 - Magnetic Heading. *)
Cat021I152 == <<Scaled(Uint("magneticHeading", 16), Dyadic(45, -13))>>

(* I021/155 - Barometric Vertical Rate. *)
Cat021I155 == <<
    Code("re", Cat021RangeExceeded), Scaled(Signed("bvr", 15), Dyadic(25, -2))>>

(* I021/157 - Geometric Vertical Rate. *)
Cat021I157 == <<
    Code("re", Cat021RangeExceeded), Scaled(Signed("gvr", 15), Dyadic(25, -2))>>

(* I021/160 - Airborne Ground Vector. *)
Cat021I160 == <<
    Code("re", Cat021RangeExceeded), Scaled(Field("groundSpeed", 15), Dyadic(1, -14)),
    Scaled(Uint("trackAngle", 16), Dyadic(45, -13))>>

(* I021/161 - Track Number. *)
Cat021I161 == <<Spare(4), Field("trackNumber", 12)>>

(* I021/165 - Track Angle Rate. *)
Cat021I165 == <<Spare(6), Scaled(Signed("tar", 10), Dyadic(1, -5))>>

(* I021/200 - Target Status. *)
Cat021I200 == <<
    Field("icf", 1), Field("lnav", 1), Code("me", MilitaryEmergency),
    Code("ps", Cat021PriorityStatus), Code("ss", Cat021SurvStatus)>>

(* I021/210 - MOPS Version. *)
Cat021I210 == <<
    Spare(1), Field("vns", 1), Code("vn", Cat021MopsVersion),
    Code("ltt", Cat021LinkTechType)>>

(* Wind Speed. *)
Cat021I220Ws == <<Uint("windSpeed", 16)>>

(* Wind Direction. *)
Cat021I220Wd == <<Uint("windDirection", 16)>>

(* Temperature. *)
Cat021I220Tmp == <<Scaled(SignedUint("temperature", 16), Dyadic(1, -2))>>

Cat021I220_sub ==
    <<Fspec(1, <<
      At(0, 7, Item("ws", Cat021I220Ws)), At(0, 6, Item("wd", Cat021I220Wd)),
      At(0, 5, Item("tmp", Cat021I220Tmp)), At(0, 4, Uint("trb", 8))>>)>>

(* I021/220 - Met Information. *)
Cat021I220 == <<Item("sub", Cat021I220_sub)>>

(* I021/230 - Roll Angle. *)
Cat021I230 == <<Scaled(SignedUint("rollAngle", 16), Hundredth)>>

Cat021I250_bdsElement == <<Field("mbData", 56), Field("bds1", 4), Field("bds2", 4)>>

(* I021/250 - Mode S MB Data. *)
Cat021I250 == <<Array("bds", Cat021I250_bdsElement)>>

(* I021/260 - ACAS Resolution Advisory Report. *)
Cat021I260 == <<
    Field("typ", 5), Field("styp", 3), Field("ara", 14), Field("rac", 4),
    Field("rat", 1), Field("mte", 1), Code("tti", Cat021ThreatTypeInd), Field("tid", 26)>>

(* I021/271 - Surface Capabilities and Characteristics. *)
Cat021I271 == <<
    Spare(2), Field("poa", 1), Field("cdtiS", 1), Field("b2Low", 1), Field("ras", 1),
    Field("ident", 1), Fx(<<Field("lw", 4), Spare(3), Spare(1)>>)>>

Cat021I295_sub ==
    <<Fspec(4, <<
      At(0, 7, Uint("aos", 8)), At(0, 6, Uint("trd", 8)), At(0, 5, Uint("m3a", 8)),
      At(0, 4, Uint("qi", 8)), At(0, 3, Uint("ti", 8)), At(0, 2, Uint("mam", 8)),
      At(0, 1, Uint("gh", 8)), At(1, 7, Uint("fl", 8)), At(1, 6, Uint("isa", 8)),
      At(1, 5, Uint("fsa", 8)), At(1, 4, Uint("as", 8)), At(1, 3, Uint("tas", 8)),
      At(1, 2, Uint("mh", 8)), At(1, 1, Uint("bvr", 8)), At(2, 7, Uint("gvr", 8)),
      At(2, 6, Uint("gv", 8)), At(2, 5, Uint("tar", 8)), At(2, 4, Uint("tiAge", 8)),
      At(2, 3, Uint("ts", 8)), At(2, 2, Uint("met", 8)), At(2, 1, Uint("roa", 8)),
      At(3, 7, Uint("ara", 8)), At(3, 6, Uint("scc", 8))>>)>>

(* I021/295 - Data Ages. *)
Cat021I295 == <<Item("sub", Cat021I295_sub)>>

(* Barometric Pressure Setting. *)
Cat021ReBps == <<Spare(4), Scaled(Field("bps", 12), Tenth)>>

(* Selected Heading. *)
Cat021ReSelh == <<
    Spare(4), Code("hrd", Cat021NorthRef), Field("stat", 1),
    Scaled(Field("selh", 10), Dyadic(45, -6))>>

(* Navigation Mode. *)
Cat021ReNav == <<
    Field("ap", 1), Field("vn", 1), Field("ah", 1), Field("am", 1), Spare(4)>>

(* Surface Ground Vector. *)
Cat021ReSgv == <<
    Field("stp", 1), Field("hts", 1), Code("htt", Cat021NorthRef),
    Code("hrd", Cat021NorthRef), Scaled(Field("gss", 11), Dyadic(1, -3)),
    Fx(<<Scaled(Field("hgt", 7), Dyadic(45, -4)), Spare(1)>>)>>

(* Aircraft Status. *)
Cat021ReSta == <<Field("es", 1), Field("uat", 1), Spare(5), Fx(<<Spare(7), Spare(1)>>)>>

(* Military Extended Squitter Summary. *)
Cat021ReMesSum == <<
    Field("m5", 1), Field("id", 1), Field("da", 1), Field("m1", 1), Field("m2", 1),
    Field("m3", 1), Field("mc", 1), Field("po", 1)>>

(* Mode 5 PIN/National Origin. *)
Cat021ReMesPno == <<Spare(2), Field("pin", 14), Spare(5), Field("no", 11)>>

(* Extended Mode 1 Code in Octal Representation. *)
Cat021ReMesEm1 == <<
    Code("v", CodeValidated), Spare(1), Code("l", CodeSourceExtracted), Spare(1),
    Field("em1", 12)>>

(* X Pulse Presence. *)
Cat021ReMesXp == <<
    Spare(2), Field("xp", 1), Field("x5", 1), Field("xc", 1), Field("x3", 1),
    Field("x2", 1), Field("x1", 1)>>

(* Figure of Merit. *)
Cat021ReMesFom == <<Spare(3), Field("fom", 5)>>

(* Mode 2 Code in Octal Representation. *)
Cat021ReMesM2 == <<
    Code("v", CodeValidated), Spare(1), Code("l", CodeSourceExtracted), Spare(1),
    Field("mode2", 12)>>

Cat021ReMes_sub ==
    <<Fspec(1, <<
      At(0, 7, Item("sum", Cat021ReMesSum)), At(0, 6, Item("pno", Cat021ReMesPno)),
      At(0, 5, Item("em1", Cat021ReMesEm1)), At(0, 4, Item("xp", Cat021ReMesXp)),
      At(0, 3, Item("fom", Cat021ReMesFom)), At(0, 2, Item("m2", Cat021ReMesM2))>>)>>

(* MES - Military Extended Squitter. *)
Cat021ReMes == <<Item("sub", Cat021ReMes_sub)>>

(* I048/020 - Target Report Descriptor. *)
Cat048I020 == <<
    Code("typ", DetectionType), Code("sim", SimIndicator), Code("rdp", RdpChain),
    Code("spi", SpiPresence), Code("rab", ReportSource),
    Fx(<<
      Code("tst", TestTarget), Code("err", ExtendedRange), Code("xpp", XPulsePresence),
      Code("me", MilitaryEmergency), Code("mi", MilitaryId), Code("foeFri", FoeFriId),
      Spare(1)>>)>>

(* I048/030 - Warning/Error Conditions and Target Classification. *)
Cat048I030 == <<
    Field("we", 7), Fx(<<Field("we1", 7), Fx(<<Field("we2", 7), Spare(1)>>)>>)>>

(* I048/040 - Measured Position in Slant Polar Co-ordinates. *)
Cat048I040 == <<
    Scaled(Uint("rho", 16), Dyadic(1, -8)), Scaled(Uint("theta", 16), Dyadic(45, -13))>>

(* I048/042 - Calculated Position in Cartesian Co-ordinates. *)
Cat048I042 == <<
    Scaled(SignedUint("x", 16), Dyadic(1, -7)),
    Scaled(SignedUint("y", 16), Dyadic(1, -7))>>

(* I048/050 - Mode-2 Code in Octal Representation. *)
Cat048I050 == <<
    Code("v", CodeValidated), Code("g", CodeGarbled), Code("l", CodeSourceSmoothed),
    Spare(1), Field("code", 12)>>

(* I048/055 - Mode-1 Code in Octal Representation. *)
Cat048I055 == <<
    Code("v", CodeValidated), Code("g", CodeGarbled), Code("l", CodeSourceSmoothed),
    Field("code", 5)>>

(* I048/060 - Mode-2 Code Confidence Indicator. *)
Cat048I060 == <<Spare(4), Field("qxi", 12)>>

(* I048/065 - Mode-1 Code Confidence Indicator. *)
Cat048I065 == <<Spare(3), Field("qxi", 5)>>

(* I048/070 - Mode-3/A Code in Octal Representation. *)
Cat048I070 == <<
    Code("v", CodeValidated), Code("g", CodeGarbled), Code("l", CodeSourceExtracted),
    Spare(1), Field("code", 12)>>

(* I048/080 - Mode-3/A Code Confidence Indicator. *)
Cat048I080 == <<Spare(4), Field("qxi", 12)>>

(* I048/090 - Flight Level in Binary Representation. *)
Cat048I090 == <<
    Code("v", CodeValidated), Code("g", CodeGarbled),
    Scaled(Signed("fl", 14), Dyadic(1, -2))>>

(* I048/100 - Mode-C Code and Code Confidence Indicator. *)
Cat048I100 == <<
    Code("v", CodeValidated), Code("g", CodeGarbled), Spare(2), Field("code", 12),
    Spare(4), Field("qxi", 12)>>

(* I048/110 - Height Measured by a 3D Radar. *)
Cat048I110 == <<Spare(2), Scaled(Signed("height3d", 14), Dyadic(25, 0))>>

(* Calculated Doppler Speed. *)
Cat048I120Cal == <<Code("d", DopplerValidity), Spare(5), Signed("cal", 10)>>

Cat048I120Rds_dopplerElement == <<Uint("dop", 16), Uint("amb", 16), Uint("frq", 16)>>

(* Raw Doppler Speed. *)
Cat048I120Rds == <<Array("doppler", Cat048I120Rds_dopplerElement)>>

Cat048I120_sub ==
    <<Fspec(1, <<
      At(0, 7, Item("cal", Cat048I120Cal)), At(0, 6, Item("rds", Cat048I120Rds))>>)>>

(* I048/120 - Radial Doppler Speed. *)
Cat048I120 == <<Item("sub", Cat048I120_sub)>>

Cat048I130_sub ==
    <<Fspec(1, <<
      At(0, 7, Uint("srl", 8)), At(0, 6, Uint("srr", 8)), At(0, 5, Signed("sam", 8)),
      At(0, 4, Uint("prl", 8)), At(0, 3, Signed("pam", 8)), At(0, 2, Signed("rpd", 8)),
      At(0, 1, Signed("apd", 8))>>)>>

(* I048/130 - Radar Plot Characteristics. *)
Cat048I130 == <<Item("sub", Cat048I130_sub)>>

(* I048/161 - Track Number. *)
Cat048I161 == <<Spare(4), Field("trackNumber", 12)>>

(* I048/170 - Track Status. *)
Cat048I170 == <<
    Code("cnf", TrackConfidence), Code("rad", SensorType), Code("dou", AssocConfidence),
    Code("mah", HorizManeuver), Code("cdm", ClimbDescendMode),
    Fx(<<
      Code("tre", TrackLifetime), Code("gho", GhostTarget),
      Code("sup", NeighborSupport), Code("tcc", TrackCoordType), Spare(3), Spare(1)>>)>>

(* I048/200 - Calculated Track Velocity in Polar Co-ordinates. *)
Cat048I200 == <<
    Scaled(Uint("groundSpeed", 16), Dyadic(1, -14)),
    Scaled(Uint("heading", 16), Dyadic(45, -13))>>

(* I048/210 - Track Quality. *)
Cat048I210 == <<
    Scaled(Uint("sigmaX", 8), Dyadic(1, -7)), Scaled(Uint("sigmaY", 8), Dyadic(1, -7)),
    Scaled(Uint("sigmaV", 8), Dyadic(1, -14)), Scaled(Uint("sigmaH", 8), Dyadic(45, -9))>>

(* I048/230 - Communications/ACAS Capability and Flight Status. *)
Cat048I230 == <<
    Code("com", CommCapability), Code("stat", FlightStatus), Code("si", SiIiCapability),
    Spare(1), Code("mssc", ModeSServiceCap), Code("arc", AltResolution),
    Code("aic", AircraftIdCap), Field("b1a", 1), Field("b1b", 4)>>

Cat048I250_bdsElement == <<Field("mbData", 56), Field("bds1", 4), Field("bds2", 4)>>

(* I048/250 - Mode S MB Data. *)
Cat048I250 == <<Array("bds", Cat048I250_bdsElement)>>

(* I048/260 - ACAS Resolution Advisory Report. *)
Cat048I260 == <<Field("mbData", 56)>>

(* Mode 5 Summary. *)
Cat048ReSum == <<
    Field("m5", 1), Field("id", 1), Field("da", 1), Field("m1", 1), Field("m2", 1),
    Field("m3", 1), Field("mc", 1), Spare(1)>>

(* Mode 5 GNSS-derived Position. *)
Cat048RePos == <<
    Scaled(Signed("lat", 24), Dyadic(45, -21)),
    Scaled(Signed("lon", 24), Dyadic(45, -21))>>

(* Mode 5 GNSS-derived Altitude. *)
Cat048ReGa == <<
    Spare(1), Code("res", AltResolution), Scaled(Signed("ga", 14), Dyadic(25, 0))>>

(* Extended Mode 1 Code in Octal Representation. *)
Cat048ReEm1 == <<
    Code("v", CodeValidated), Code("g", CodeGarbled), Code("l", CodeSourceExtracted),
    Spare(1), Field("em1", 12)>>

(* X Pulse Presence. *)
Cat048ReXp == <<
    Spare(2), Field("xp", 1), Field("x5", 1), Field("xc", 1), Field("x3", 1),
    Field("x2", 1), Field("x1", 1)>>

(* Mode 5 PIN/National Origin/Mission Code. *)
Cat048ReMd5Pmn == <<
    Spare(2), Field("pin", 14), Spare(2), Code("nav", NatOriginValidity),
    Field("nat", 5), Spare(2), Field("mis", 6)>>

Cat048ReMd5_sub ==
    <<Fspec(1, <<
      At(0, 7, Item("sum", Cat048ReSum)), At(0, 6, Item("pmn", Cat048ReMd5Pmn)),
      At(0, 5, Item("pos", Cat048RePos)), At(0, 4, Item("ga", Cat048ReGa)),
      At(0, 3, Item("em1", Cat048ReEm1)),
      At(0, 2, Scaled(Signed("tos", 8), Dyadic(1, -7))),
      At(0, 1, Item("xp", Cat048ReXp))>>)>>

(* MD5 - Mode 5 Data reports & Extended Mode 2 Code. *)
Cat048ReMd5 == <<Item("sub", Cat048ReMd5_sub)>>

(* Mode 5 PIN/National Origin. *)
Cat048ReM5nPmn == <<
    Spare(2), Field("pin", 14), Spare(4), Code("nov", NatOriginValidity),
    Field("no", 11)>>

(* Figure of Merit. *)
Cat048ReM5nFom == <<Spare(3), Field("fom", 5)>>

Cat048ReM5n_sub ==
    <<Fspec(2, <<
      At(0, 7, Item("sum", Cat048ReSum)), At(0, 6, Item("pmn", Cat048ReM5nPmn)),
      At(0, 5, Item("pos", Cat048RePos)), At(0, 4, Item("ga", Cat048ReGa)),
      At(0, 3, Item("em1", Cat048ReEm1)),
      At(0, 2, Scaled(Signed("tos", 8), Dyadic(1, -7))),
      At(0, 1, Item("xp", Cat048ReXp)), At(1, 7, Item("fom", Cat048ReM5nFom))>>)>>

(* M5N - Mode 5 Data reports, New Format. *)
Cat048ReM5n == <<Item("sub", Cat048ReM5n_sub)>>

(* Extended Mode 4 Report. *)
Cat048ReM4e == <<Spare(5), Code("foeFri", FoeFriId), Fx(<<Spare(7), Spare(1)>>)>>

Cat048ReRpc_sub ==
    <<Fspec(1, <<
      At(0, 7, Uint("sco", 8)), At(0, 6, Scaled(Uint("scr", 16), Tenth)),
      At(0, 5, Scaled(Uint("rw", 16), Dyadic(1, -8))),
      At(0, 4, Scaled(Uint("ar", 16), Dyadic(1, -8)))>>)>>

(* RPC - Radar Plot Characteristics. *)
Cat048ReRpc == <<Item("sub", Cat048ReRpc_sub)>>

(* Extended Range Report. *)
Cat048ReErr == <<Scaled(Field("rho", 24), Dyadic(1, -8))>>

Cat253I025_destinationsElement == <<Uint("sac", 8), Uint("sic", 8), Uint("localId", 8)>>

(* I253/025 - Data Destination Identifier and Local Data Destination ID. *)
Cat253I025 == <<Array("destinations", Cat253I025_destinationsElement)>>

(* I253/035 - Data Origin Identifier. *)
Cat253I035 == <<Uint("oac", 8), Uint("oic", 8), Uint("localId", 8)>>

(* I253/040 - Message Type Identifier. *)
Cat253I040 == <<
    Code("pi", Cat253Priority), Code("d", Cat253Direction), Code("mit", Cat253MsgType)>>

Cat253I050_sequencesElement == <<Uint("msid", 16)>>

(* I253/050 - Message Sequence Identifier. *)
Cat253I050 == <<Array("sequences", Cat253I050_sequencesElement)>>

(* I253/060 - Blocking Information. *)
Cat253I060 == <<Uint("tnb", 8), Uint("bn", 8)>>

(* I253/080 - Application Data Structure. *)
Cat253I080 == <<
    Uint("startIndex", 16), Uint("count", 8), Code("stale", Cat253StaleInd),
    Code("sim", SimIndicator), Code("localCtrl", Cat253LocalCtrl),
    Code("dataIncluded", Cat253DataIncl), Spare(3),
    Fx(<<
      Uint("startIndex1", 16), Uint("count1", 8), Code("stale1", Cat253StaleInd),
      Code("sim1", SimIndicator), Code("localCtrl1", Cat253LocalCtrl),
      Code("dataIncluded1", Cat253DataIncl), Spare(3),
      Fx(<<
        Uint("startIndex2", 16), Uint("count2", 8), Code("stale2", Cat253StaleInd),
        Code("sim2", SimIndicator), Code("localCtrl2", Cat253LocalCtrl),
        Code("dataIncluded2", Cat253DataIncl), Spare(3),
        Fx(<<
          Uint("startIndex3", 16), Uint("count3", 8), Code("stale3", Cat253StaleInd),
          Code("sim3", SimIndicator), Code("localCtrl3", Cat253LocalCtrl),
          Code("dataIncluded3", Cat253DataIncl), Spare(3), Spare(1)>>)>>)>>)>>

Cat253I090_dataItemsElement == <<Bytes("data", 16)>>

(* I253/090 - Application Data. *)
Cat253I090 == <<Array("dataItems", Cat253I090_dataItemsElement)>>

(* I253/100 variant. *)
Cat253Multipath == <<
    Code("detection", Cat253MpDetection), Code("level", Cat253MpLevel)>>

(* I253/100 variant. *)
Cat253Squitter == <<
    Code("rxChannel", Cat253SqRxChannel), Spare(2),
    Code("msSquitter", Cat253SqMsSquitter), Code("m5Squitter", Cat253SqM5Squitter)>>

(* I253/100 variant. *)
Cat253BitReport == <<
    Code("bitType", Cat253BrBitType), Code("successState", Cat253BrSuccessState),
    Code("antennaGeneral", Cat253BrAntennaGeneral),
    Code("antennaScanError", Cat253BrAntennaScanError), Spare(4),
    Code("powerSourceGeneral", Cat253BrPowerSourceGeneral),
    Code("ctrlUnitGeneral", Cat253BrCtrlUnitGeneral),
    Code("kbCryptoComm", Cat253BrKbCryptoComm), Code("kbRtc", Cat253BrKbRtc),
    Code("kbHeatWarning", Cat253BrKbHeatWarning),
    Code("bottomBandGeneral", Cat253BrBottomBandGeneral),
    Code("tbCtrlComm", Cat253BrTbCtrlComm),
    Code("tbConfigUpload", Cat253BrTbConfigUpload),
    Code("vswrGeneral", Cat253BrVswrGeneral), Code("vswrSum", Cat253BrVswrSum),
    Code("vswrDiff", Cat253BrVswrDiff), Code("vswrOmni", Cat253BrVswrOmni), Spare(2),
    Code("afbGeneral", Cat253BrAfbGeneral), Code("afbMainSynth", Cat253BrAfbMainSynth),
    Code("afbBitSynth", Cat253BrAfbBitSynth), Code("afbTotalCh", Cat253BrAfbTotalCh),
    Code("afbDiffCh", Cat253BrAfbDiffCh), Code("afbOmniCh", Cat253BrAfbOmniCh),
    Code("rfgybGeneral", Cat253BrRfgybGeneral),
    Code("rfgybTotalPwr", Cat253BrRfgybTotalPwr),
    Code("rfgybDiffPwr", Cat253BrRfgybDiffPwr),
    Code("rfgybOmniPwr", Cat253BrRfgybOmniPwr),
    Code("rfgybHeatWarning", Cat253BrRfgybHeatWarning),
    Code("cryptoGeneral", Cat253BrCryptoGeneral), Spare(48)>>
=============================================================================
