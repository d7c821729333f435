---------------------------- MODULE AsterixMessages ----------------------------
(* The layouts of the classes of namespace asterix (messages.hpp),            *)
(* each the steps its encode() and its decode() take.                         *)
EXTENDS AsterixStructs

(* Special Purpose Field. *)
Cat007DownlinkRecord_items_spf == <<Length(<<Rest("data")>>)>>

(* Reserved Expansion Field. *)
Cat007DownlinkRecord_items_ref == <<Length(<<Rest("data")>>)>>

Cat007DownlinkRecord_items ==
    <<Fspec(5, <<
      At(0, 7, Item("i010", DataSourceId)), At(0, 6, Item("i025", DataSourceId)),
      At(0, 5, Item("i410", Cat007I410)), At(0, 4, Item("i140", TimeOfDay)),
      At(0, 3, Item("i400", Cat007I400)), At(0, 2, Item("i020", Cat007I020)),
      At(0, 1, Item("i040", Cat007I040)), At(1, 7, Item("i070", Cat007I070)),
      At(1, 6, Item("i090", Cat007I090)), At(1, 5, Item("i130", Cat007I130)),
      At(1, 4, Field("i220", 24)), At(1, 3, Ident("i240")),
      At(1, 2, Item("i250", Cat007I250)), At(1, 1, Item("i161", Cat007I161)),
      At(2, 7, Item("i042", Cat007I042)), At(2, 6, Item("i200", Cat007I200)),
      At(2, 5, Item("i170", Cat007I170)), At(2, 4, Item("i210", Cat007I210)),
      At(2, 3, Item("i030", Cat007I030)), At(2, 2, Item("i080", Cat007I080)),
      At(2, 1, Item("i100", Cat007I100)), At(3, 7, Item("i110", Cat007I110)),
      At(3, 6, Item("i120", Cat007I120)), At(3, 5, Item("i230", Cat007I230)),
      At(3, 4, Item("i260", Cat007I260)), At(3, 3, Item("i055", Cat007I055)),
      At(3, 2, Item("i050", Cat007I050)), At(3, 1, Item("i065", Cat007I065)),
      At(4, 7, Item("i060", Cat007I060)), At(4, 6, Item("i450", Cat007I450)),
      At(4, 5, Item("i085", Cat007I085)),
      At(4, 2, Item("spf", Cat007DownlinkRecord_items_spf)),
      At(4, 1, Item("ref", Cat007DownlinkRecord_items_ref))>>)>>

(* CAT007 Downlink Record. *)
Cat007DownlinkRecord == <<Item("items", Cat007DownlinkRecord_items)>>

(* Special Purpose Field. *)
Cat007UplinkRecord_items_spf == <<Fixed("len", 8, 29), Bytes("data", 28)>>

(* Reserved Expansion Field. *)
Cat007UplinkRecord_items_ref == <<Length(<<Rest("data")>>)>>

Cat007UplinkRecord_items ==
    <<Fspec(3, <<
      At(0, 7, Item("i010", DataSourceId)), At(0, 6, Item("i025", DataSourceId)),
      At(0, 5, Item("i410", Cat007I410)), At(0, 4, Item("i140", TimeOfDay)),
      At(0, 3, Item("i400", Cat007I400)), At(0, 2, Item("i040", Cat007I040)),
      At(0, 1, Field("i220", 24)), At(1, 7, Item("i161", Cat007I161)),
      At(1, 6, Item("i042", Cat007I042)), At(1, 5, Item("i200", Cat007I200)),
      At(1, 4, Item("i415", Cat007I415)), At(1, 3, Item("i420", Cat007I420)),
      At(1, 2, Item("i440", Cat007I440)),
      At(2, 2, Item("spf", Cat007UplinkRecord_items_spf)),
      At(2, 1, Item("ref", Cat007UplinkRecord_items_ref))>>)>>

(* CAT007 Uplink Record. *)
Cat007UplinkRecord == <<Item("items", Cat007UplinkRecord_items)>>

Cat021Record_items_re_items ==
    <<Bitmap(1, <<
      At(0, 7, Item("bps", Cat021ReBps)), At(0, 6, Item("selh", Cat021ReSelh)),
      At(0, 5, Item("nav", Cat021ReNav)), At(0, 4, Uint("gao", 8)),
      At(0, 3, Item("sgv", Cat021ReSgv)), At(0, 2, Item("sta", Cat021ReSta)),
      At(0, 1, Scaled(Uint("tnh", 16), Dyadic(45, -13))),
      At(0, 0, Item("mes", Cat021ReMes))>>)>>

(* Reserved Expansion Field. *)
Cat021Record_items_re == <<Length(<<Item("items", Cat021Record_items_re_items)>>)>>

(* Special Purpose Field. *)
Cat021Record_items_sp == <<Length(<<Rest("data")>>)>>

Cat021Record_items ==
    <<Fspec(7, <<
      At(0, 7, Item("i010", DataSourceId)), At(0, 6, Item("i040", Cat021I040)),
      At(0, 5, Item("i161", Cat021I161)), At(0, 4, Uint("i015", 8)),
      At(0, 3, Item("i071", TimeOfDay)), At(0, 2, Item("i130", Cat021I130)),
      At(0, 1, Item("i131", Cat021I131)), At(1, 7, Item("i072", TimeOfDay)),
      At(1, 6, Item("i150", Cat021I150)), At(1, 5, Item("i151", Cat021I151)),
      At(1, 4, Field("i080", 24)), At(1, 3, Item("i073", TimeOfDay)),
      At(1, 2, Item("i074", Cat021I074)), At(1, 1, Item("i075", TimeOfDay)),
      At(2, 7, Item("i076", Cat021I076)), At(2, 6, Item("i140", Cat021I140)),
      At(2, 5, Item("i090", Cat021I090)), At(2, 4, Item("i210", Cat021I210)),
      At(2, 3, Item("i070", Cat021I070)), At(2, 2, Item("i230", Cat021I230)),
      At(2, 1, Item("i145", Cat021I145)), At(3, 7, Item("i152", Cat021I152)),
      At(3, 6, Item("i200", Cat021I200)), At(3, 5, Item("i155", Cat021I155)),
      At(3, 4, Item("i157", Cat021I157)), At(3, 3, Item("i160", Cat021I160)),
      At(3, 2, Item("i165", Cat021I165)), At(3, 1, Item("i077", TimeOfDay)),
      At(4, 7, Ident("i170")), At(4, 6, Uint("i020", 8)),
      At(4, 5, Item("i220", Cat021I220)), At(4, 4, Item("i146", Cat021I146)),
      At(4, 3, Item("i148", Cat021I148)), At(4, 2, Item("i110", Cat021I110)),
      At(4, 1, Item("i016", Cat021I016)), At(5, 7, Item("i008", Cat021I008)),
      At(5, 6, Item("i271", Cat021I271)), At(5, 5, Signed("i132", 8)),
      At(5, 4, Item("i250", Cat021I250)), At(5, 3, Item("i260", Cat021I260)),
      At(5, 2, Uint("i400", 8)), At(5, 1, Item("i295", Cat021I295)),
      At(6, 2, Item("re", Cat021Record_items_re)),
      At(6, 1, Item("sp", Cat021Record_items_sp))>>)>>

(* CAT021 Record. *)
Cat021Record == <<Item("items", Cat021Record_items)>>

(* Special Purpose Field. *)
Cat048Record_items_sp == <<Length(<<Rest("data")>>)>>

Cat048Record_items_re_items ==
    <<Bitmap(1, <<
      At(0, 7, Item("md5", Cat048ReMd5)), At(0, 6, Item("m5n", Cat048ReM5n)),
      At(0, 5, Item("m4e", Cat048ReM4e)), At(0, 4, Item("rpc", Cat048ReRpc)),
      At(0, 3, Item("err", Cat048ReErr))>>)>>

(* Reserved Expansion Field. *)
Cat048Record_items_re == <<Length(<<Item("items", Cat048Record_items_re_items)>>)>>

Cat048Record_items ==
    <<Fspec(4, <<
      At(0, 7, Item("i010", DataSourceId)), At(0, 6, Item("i140", TimeOfDay)),
      At(0, 5, Item("i020", Cat048I020)), At(0, 4, Item("i040", Cat048I040)),
      At(0, 3, Item("i070", Cat048I070)), At(0, 2, Item("i090", Cat048I090)),
      At(0, 1, Item("i130", Cat048I130)), At(1, 7, Field("i220", 24)),
      At(1, 6, Ident("i240")), At(1, 5, Item("i250", Cat048I250)),
      At(1, 4, Item("i161", Cat048I161)), At(1, 3, Item("i042", Cat048I042)),
      At(1, 2, Item("i200", Cat048I200)), At(1, 1, Item("i170", Cat048I170)),
      At(2, 7, Item("i210", Cat048I210)), At(2, 6, Item("i030", Cat048I030)),
      At(2, 5, Item("i080", Cat048I080)), At(2, 4, Item("i100", Cat048I100)),
      At(2, 3, Item("i110", Cat048I110)), At(2, 2, Item("i120", Cat048I120)),
      At(2, 1, Item("i230", Cat048I230)), At(3, 7, Item("i260", Cat048I260)),
      At(3, 6, Item("i055", Cat048I055)), At(3, 5, Item("i050", Cat048I050)),
      At(3, 4, Item("i065", Cat048I065)), At(3, 3, Item("i060", Cat048I060)),
      At(3, 2, Item("sp", Cat048Record_items_sp)),
      At(3, 1, Item("re", Cat048Record_items_re))>>)>>

(* CAT048 Record. *)
Cat048Record == <<Item("items", Cat048Record_items)>>

Cat253Record_items_i100_payloadOtherwise == <<Rest("data")>>

(* I253/100 - Transparent Application Data 1. *)
Cat253Record_items_i100 ==
    <<Length(<<
      Choice("payload", 1, <<
        [label |-> 5, class |-> Cat253Multipath],
        [label |-> 6, class |-> Cat253Squitter],
        [label |-> 35, class |-> Cat253BitReport],
        [label |-> -1, class |-> Cat253Record_items_i100_payloadOtherwise]>>)>>)>>

(* Special Purpose Field. *)
Cat253Record_items_sp == <<Length(<<Rest("data")>>)>>

(* Random Field Sequencing. *)
Cat253Record_items_rfs == <<Length(<<Rest("data")>>)>>

Cat253Record_items ==
    <<Fspec(2, <<
      At(0, 7, Item("i010", DataSourceId)), At(0, 6, Uint("i015", 8)),
      At(0, 5, Item("i025", Cat253I025)), At(0, 4, Uint("i030", 16)),
      At(0, 3, Item("i040", Cat253I040)), At(0, 2, Item("i050", Cat253I050)),
      At(0, 1, Item("i070", TimeOfDay)), At(1, 7, Item("i035", Cat253I035)),
      At(1, 6, Item("i060", Cat253I060)), At(1, 5, Item("i080", Cat253I080)),
      At(1, 4, Item("i090", Cat253I090)),
      At(1, 3, Needing(Item("i100", Cat253Record_items_i100), 10)),
      At(1, 2, Item("sp", Cat253Record_items_sp)),
      At(1, 1, Item("rfs", Cat253Record_items_rfs))>>)>>

(* CAT253 Record. *)
Cat253Record == <<Item("items", Cat253Record_items)>>
=============================================================================
