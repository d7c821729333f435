------------------------------ MODULE AsterixTypes ------------------------------
(* The enums and scalar classes of namespace asterix (types.hpp).             *)
(* An enum is written in so many bits, and known values only are encoded      *)
(* and decoded.                                                               *)
EXTENDS Codec

TimeOfDay == <<Field("raw", 24)>>

DetectionType == Codes(3, 0..7)
FoeFriId == Codes(2, 0..3)
SensorType == Codes(2, 0..3)
ClimbDescendMode == Codes(2, 0..3)
CommCapability == Codes(3, 0..4)
FlightStatus == Codes(3, 0..7)
CodeValidated == Codes(1, 0..1)
CodeGarbled == Codes(1, 0..1)
CodeSourceSmoothed == Codes(1, 0..1)
CodeSourceExtracted == Codes(1, 0..1)
SimIndicator == Codes(1, 0..1)
TestTarget == Codes(1, 0..1)
ReportSource == Codes(1, 0..1)
RdpChain == Codes(1, 0..1)
SpiPresence == Codes(1, 0..1)
ExtendedRange == Codes(1, 0..1)
XPulsePresence == Codes(1, 0..1)
MilitaryEmergency == Codes(1, 0..1)
MilitaryId == Codes(1, 0..1)
TrackConfidence == Codes(1, 0..1)
AssocConfidence == Codes(1, 0..1)
HorizManeuver == Codes(1, 0..1)
TrackLifetime == Codes(1, 0..1)
GhostTarget == Codes(1, 0..1)
NeighborSupport == Codes(1, 0..1)
TrackCoordType == Codes(1, 0..1)
SiIiCapability == Codes(1, 0..1)
ModeSServiceCap == Codes(1, 0..1)
AltResolution == Codes(1, 0..1)
AircraftIdCap == Codes(1, 0..1)
DopplerValidity == Codes(1, 0..1)
NatOriginValidity == Codes(1, 0..1)
Cat007DiMsgType == Codes(8, 0..8)
Cat007Lockout == Codes(2, 0..2)
Cat021TrajectoryChangeCap == Codes(2, 0..3)
Cat021AddressType == Codes(3, 0..7)
Cat021AltReportCap == Codes(2, 0..3)
Cat021ConfLevel == Codes(2, 0..3)
Cat021FullSecondInd == Codes(2, 0..3)
Cat021PointType == Codes(4, 0..11)
Cat021TurnDirection == Codes(2, 0..3)
Cat021AltSource == Codes(2, 0..3)
Cat021PriorityStatus == Codes(3, 0..7)
Cat021SurvStatus == Codes(2, 0..3)
Cat021MopsVersion == Codes(3, 0..2)
Cat021LinkTechType == Codes(3, 0..3)
Cat021ThreatTypeInd == Codes(2, 0..3)
Cat021RangeExceeded == Codes(1, 0..1)
Cat021IasMach == Codes(1, 0..1)
Cat021NorthRef == Codes(1, 0..1)
Cat253MsgType == Codes(6, 1..21)
Cat253MpDetection == Codes(4, 0..1)
Cat253MpLevel == Codes(4, 0..2)
Cat253SqRxChannel == Codes(4, 0..2)
Cat253SqMsSquitter == Codes(1, 0..1)
Cat253SqM5Squitter == Codes(1, 0..1)
Cat253BrBitType == Codes(4, 0..2)
Cat253BrSuccessState == Codes(4, 0..2)
Cat253BrAntennaGeneral == Codes(4, 0..2)
Cat253BrAntennaScanError == Codes(4, 0..2)
Cat253BrPowerSourceGeneral == Codes(4, 0..2)
Cat253BrCtrlUnitGeneral == Codes(2, 0..2)
Cat253BrKbCryptoComm == Codes(2, 0..2)
Cat253BrKbRtc == Codes(2, 0..2)
Cat253BrKbHeatWarning == Codes(2, 0..2)
Cat253BrBottomBandGeneral == Codes(4, 0..2)
Cat253BrTbCtrlComm == Codes(2, 0..2)
Cat253BrTbConfigUpload == Codes(2, 0..2)
Cat253BrVswrGeneral == Codes(2, 0..2)
Cat253BrVswrSum == Codes(2, 0..2)
Cat253BrVswrDiff == Codes(2, 0..2)
Cat253BrVswrOmni == Codes(2, 0..2)
Cat253BrAfbGeneral == Codes(4, 0..2)
Cat253BrAfbMainSynth == Codes(2, 0..2)
Cat253BrAfbBitSynth == Codes(2, 0..2)
Cat253BrAfbTotalCh == Codes(2, 0..2)
Cat253BrAfbDiffCh == Codes(2, 0..2)
Cat253BrAfbOmniCh == Codes(2, 0..2)
Cat253BrRfgybGeneral == Codes(4, 0..2)
Cat253BrRfgybTotalPwr == Codes(2, 0..2)
Cat253BrRfgybDiffPwr == Codes(2, 0..2)
Cat253BrRfgybOmniPwr == Codes(2, 0..2)
Cat253BrRfgybHeatWarning == Codes(2, 0..2)
Cat253BrCryptoGeneral == Codes(4, 0..2)
Cat253Priority == Codes(1, 0..1)
Cat253Direction == Codes(1, 0..1)
Cat253StaleInd == Codes(1, 0..1)
Cat253LocalCtrl == Codes(1, 0..1)
Cat253DataIncl == Codes(1, 0..1)
=============================================================================
