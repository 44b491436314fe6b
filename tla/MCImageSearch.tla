---------------------------- MODULE MCImageSearch ----------------------------
(* Main with mbr and two editors with a magic, of one and of two bytes, in  *)
(* a file of four windows that overlap in two bytes.                        *)
EXTENDS Main, FiniteSets

MCMagicSz     == <<0, 2, 1>>
MCMagicOffset == <<0, 1, 0>>
MCHeaderSz    == <<2, 3, 2>>

(* At most two occurrences of the longer magic anywhere; none or two of    *)
(* the shorter, the second on the last byte of the first window.           *)
MCHits == {<<{}, h2, h3>> :
             h2 \in {s \in SUBSET (0 .. FileLen - 2) : Cardinality(s) <= 2},
             h3 \in {{}, {1, 4}}}

(* mbr makes a directory of its own but cannot unpack, the second is of a  *)
(* plugin and packs, the third packs and is made from unpack2fd.  In a     *)
(* session of a search it is the only command; otherwise three follow.     *)
MCFeatures == <<{"detect", "list", "MULTI_BIN"},
                {"detect", "list", "unpack", "pack", "total_size", "MULTI_BIN", "calls"},
                {"detect", "unpack", "unpack2fd", "pack", "main", "MULTI_BIN"}>>
Session(h, auto, forced, requests, n) ==
  [hits |-> h, auto |-> auto, forced |-> forced, requests |-> requests, commands |-> n]
Searches == {Request("search", 0, at, TRUE) : at \in {{}, {4}}}
Plain == <<{}, {3}, {}>>
Kept == {Request("list", t, {}, FALSE) : t \in {0, UNKNOWN}} \cup {Request("unpack", t, at, FALSE) : t \in {0, 3}, at \in {{}, {7}}}
        \cup {Request("pack", 0, {}, TRUE), Request("search", 0, {}, TRUE)}
Others == {Request("list", t, at, FALSE) : t \in {0, 2, UNKNOWN}, at \in {{}, {0}, {7}}}
          \cup {Request("peek", t, {}, out) : t \in {0, 1, 2}, out \in BOOLEAN}
          \cup {Request("pack", t, at, out) : t \in {0, 1, 3, UNKNOWN}, at \in {{}, {4}}, out \in BOOLEAN}
          \cup {Request("main", t, {}, FALSE) : t \in {1, 3, UNKNOWN}}
          \cup {Request(do, 0, {}, FALSE) : do \in {"help", "bad", "list-plugin", "noargs", "usage"}}
MCSessions ==
  {Session(h, {}, {}, Searches, 1) : h \in MCHits}
  \cup {Session(Plain, auto, {1, 2, 3}, Kept, 3) : auto \in {{}, {2}, {2, 3}}}
  \cup {Session(Plain, auto, auto \cup {3}, Others, 2) : auto \in {{1, 2}, {2}, {3}}}
=============================================================================
