---------------------------- MODULE AsterixSchemas ----------------------------
(* The record types that the data blocks of the two generated namespaces      *)
(* hold, asterix for the client and asterix_alt for the server, each with the *)
(* layout it has there.                                                       *)

A == INSTANCE AsterixMessages
B == INSTANCE AsterixAltMessages

AsterixLayouts ==
    [client |-> [Cat007DownlinkRecord |-> A!Cat007DownlinkRecord,
                 Cat007UplinkRecord   |-> A!Cat007UplinkRecord,
                 Cat021Record         |-> A!Cat021Record,
                 Cat048Record         |-> A!Cat048Record,
                 Cat253Record         |-> A!Cat253Record],
     server |-> [Cat007DownlinkRecord |-> B!Cat007DownlinkRecord,
                 Cat007UplinkRecord   |-> B!Cat007UplinkRecord,
                 Cat021Record         |-> B!Cat021Record,
                 Cat048Record         |-> B!Cat048Record,
                 Cat253Record         |-> B!Cat253Record]]
=============================================================================
