-------------------------------- MODULE FdtList --------------------------------
(***************************************************************************)
(* fdt/fdt.c: a device tree is shown as a source text, and a FIT image is  *)
(* taken apart into such a text and the files it includes.                 *)
(*                                                                         *)
(* A line that shows a property has its value as text: strings, or cells,  *)
(* each a reference &ref or a number; a number printed with %d may be      *)
(* negative.  How cells are grouped in <> and their base are left out.     *)
(***************************************************************************)
EXTENDS Fdt

Cell(ref, n) == [ref |-> ref, n |-> n]
Plain(c) == [i \in DOMAIN c |-> Cell("", c[i])]
Signed(n) == IF n < Word \div 2 THEN n ELSE n - Word
Text(k, s, c) == [k |-> k, s |-> s, c |-> c]
NoText == Text("none", <<>>, <<>>)
Row(depth, is, name, label, text) ==
  [depth |-> depth, is |-> is, name |-> name, label |-> label, text |-> text]

(* v says what is listed: [tree, root, extern, dtbo, verbose, incbin].     *)
View(f, verbose, incbin) == f @@ [verbose |-> verbose, incbin |-> incbin]

-----------------------------------------------------------------------------
(* Values.                                                                 *)
Incbin(name) == <<"/incbin/", name>>
IsIncbin(data) == data.k = "strings" /\ data.s # <<>> /\ data.s[1] # <<>> /\ data.s[1][1] = "/incbin/"
fdt_prop_print_simple_value(v, data) ==
  CASE data.k = "none" -> <<Text("flag", <<>>, <<>>)>>
    [] data.k = "strings" -> <<Text(IF v.incbin /\ IsIncbin(data) THEN "incbin" ELSE "strings", data.s, <<>>)>>
    [] OTHER -> <<>>

fdt_u32_prop_lists ==
  {"#address-cells", "#clock-cells", "#cooling-cells", "#dma-cells", "#gpio-cells",
   "#interrupt-cells", "#phy-cells", "#pwm-cells", "#reset-cells", "#size-cells"}
fdt_prop_print_u32_number(name, data) ==
  IF IsU32(data) /\ name \in fdt_u32_prop_lists
    THEN <<Text("cells", <<>>, <<Cell("", Signed(data.c[1]))>>)>> ELSE <<>>

fdt_prop_print_reg(name, data) ==
  IF name = "reg" /\ data.k = "cells" THEN <<Text("cells", <<>>, Plain(data.c))>> ELSE <<>>

(* The label of a phandle, and how many of the cells after it belong to    *)
(* it, or -1; in an overlay that is up to the next external number.        *)
device_node_read_cells(tree, node, name) ==
  LET prop == device_node_find_byname(tree, node, name)
  IN IF prop # NULL /\ IsU32(tree[prop].data) THEN tree[prop].data.c[1] ELSE -1
\* mutant: the next reference is taken for a cell
UpToExternMutant(c) ==
  LET later == {i \in DOMAIN c : c[i] \in Externs} IN IF later = {} THEN Len(c) ELSE Least(later)
UpToExtern(c) ==
  LET later == {i \in DOMAIN c : c[i] \in Externs} IN IF later = {} THEN Len(c) ELSE Least(later) - 1
NoTarget == [label |-> "", cells |-> -1]
TargetOf(v, node, externals, how, after) ==
  IF node # NULL
    THEN [label |-> v.tree[node].label,
          cells |-> IF ~v.dtbo /\ how.cells # "" THEN device_node_read_cells(v.tree, node, how.cells) ELSE how.fix]
  ELSE IF v.dtbo /\ externals # <<>>
    THEN [label |-> externals[1].label, cells |-> IF how.fix # 0 THEN how.fix ELSE UpToExtern(after)]
  ELSE NoTarget

(* The cells have to be in the property.  A number of cells of 2^30 or     *)
(* more, whose bytes wrap in 32 bits, is in none of the trees.             *)
Checked(target, after) == IF target.label # "" /\ target.cells <= Len(after) THEN target ELSE NoTarget
PhandleTarget(v, phandle, how, after) ==
  IF phandle = 0 THEN [label |-> "", cells |-> 0]
  ELSE Checked(TargetOf(v, device_node_search_phandle(v.tree, v.root, phandle),
                        SelectSeq(v.extern, LAMBDA e : e.phandle = phandle), how, after), after)

(* <&label cells>, <0>, ...; nothing if one of the numbers is no phandle.  *)
Before(group, rest) == IF rest = <<>> THEN <<>> ELSE <<group \o rest[1]>>
_fdt_prop_print_phandles(v, how, c) ==
  LET Groups[i \in 1 .. Len(c) + 1] ==
        LET Group(t) == IF t.cells < 0 THEN <<>>
                        ELSE Before(<<Cell(t.label, 0)>> \o Plain(SubSeq(c, i + 1, i + t.cells)), Groups[i + 1 + t.cells])
        IN IF i > Len(c) THEN <<<<>>>> ELSE Group(PhandleTarget(v, c[i], how, SubSeq(c, i + 1, Len(c))))
  IN Groups[1]
fdt_prop_print_phandles(v, name, data) ==
  LET Texts(printed) == [k \in DOMAIN printed |-> Text("cells", <<>>, printed[k])]
  IN IF v.verbose \/ name \notin DOMAIN References \/ data.k # "cells" THEN <<>>
     ELSE Texts(_fdt_prop_print_phandles(v, References[name], data.c))

(* In base 10 if that suits most of them, and not more than fit a line.    *)
fdt_prop_number_array_detect_base(c) ==
  LET base10 == Cardinality({i \in DOMAIN c : c[i] <= 10 \/ c[i] % 10 = 0})
  IN IF Len(c) - base10 > base10 THEN 16 ELSE 10
fdt_prop_print_simple_number(data) ==
  LET c == SubSeq(data.c, 1, Lesser(Len(data.c), MaxCells))
      shown == IF data.k = "cells" /\ fdt_prop_number_array_detect_base(c) = 10
                 THEN [i \in DOMAIN c |-> Signed(c[i])] ELSE c
  IN Text(IF Len(c) < Len(data.c) THEN "stripped" ELSE data.k, <<>>, Plain(shown))

-----------------------------------------------------------------------------
(* Nodes.                                                                  *)
fdt_list_node_prop(v, i, depth) ==
  LET name == v.tree[i].name
      data == v.tree[i].data
      tried == fdt_prop_print_simple_value(v, data) \o fdt_prop_print_u32_number(name, data)
               \o fdt_prop_print_reg(name, data) \o fdt_prop_print_phandles(v, name, data)
               \o <<fdt_prop_print_simple_number(data)>>
  IN IF name = "phandle" /\ ~v.verbose THEN <<>> ELSE <<Row(depth, "prop", name, "", tried[1])>>

fdt_list_alias_node(v, i, depth) ==
  LET data == v.tree[i].data
      target == IF data.k = "strings" THEN device_node_find_bypath(v.tree, v.root, data.s[1]) ELSE NULL
  IN IF target = NULL \/ v.tree[target].label = "" THEN fdt_list_node_prop(v, i, depth)
     ELSE <<Row(depth, "alias", v.tree[i].name, v.tree[target].label, NoText)>>

Hidden(v, name) ==
  \/ ~v.verbose /\ name \in {"__fixups__", "__local_fixups__", "__symbols__"}
  \/ v.dtbo /\ name \in Fragments
fdt_list_node(v, node, from) ==
  LET symbols == device_node_find_byname(v.tree, v.root, "__symbols__")
      List[depth \in 0 .. FDT_MAX_DEPTH, i \in DOMAIN v.tree] ==
        LET n == v.tree[i]
            Kid(k) == IF n.name = "aliases" /\ ~v.verbose /\ symbols # NULL
                        THEN fdt_list_alias_node(v, k, depth + 1) ELSE List[depth + 1, k]
        IN IF Hidden(v, n.name) THEN <<>>
           ELSE IF ~n.is_node /\ n.kids = <<>> THEN fdt_list_node_prop(v, i, depth)
           ELSE <<Row(depth, "begin", n.name, n.label, NoText)>>
                \o FlattenSeq([k \in DOMAIN n.kids |-> Kid(n.kids[k])]) \o <<Row(depth, "end", "", "", NoText)>>
  IN List[from, node]

(* fragment@ { target = <&label>; __overlay__ { ... }; } is shown as       *)
(* &label { ... }; only if the label is external.                          *)
fdt_list_fragment_node(v, i) ==
  LET prop == device_node_find_byname(v.tree, i, "target")
      found == SelectSeq(v.extern, LAMBDA e : e.phandle = v.tree[prop].data.c[1])
      overlay == device_node_find_byname(v.tree, i, "__overlay__")
  IN IF \/ prop = NULL \/ v.tree[prop].is_node \/ ~IsU32(v.tree[prop].data)
        \/ found = <<>> \/ overlay = NULL \/ ~v.tree[overlay].is_node
       THEN <<>>
       ELSE <<Row(0, "refer", "", found[1].label, NoText)>>
            \o FlattenSeq([k \in DOMAIN v.tree[overlay].kids |-> fdt_list_node(v, v.tree[overlay].kids[k], 1)])
            \o <<Row(0, "end", "", "", NoText)>>
fdt_list_fragments(v) ==
  LET Joined(s, rows) == IF s.ok /\ rows # <<>> THEN [s EXCEPT !.rows = @ \o rows] ELSE [s EXCEPT !.ok = FALSE]
      nodes == SelectSeq(v.tree[v.root].kids, LAMBDA k : v.tree[k].is_node /\ v.tree[k].name \in Fragments)
  IN FoldLeft(Joined, [ok |-> TRUE, rows |-> <<>>], [k \in DOMAIN nodes |-> fdt_list_fragment_node(v, nodes[k])])

fdt_show_memreserve(rsv) ==
  LET last == {i \in DOMAIN rsv : rsv[i][2] = 0}
  IN [i \in 1 .. (IF last = {} THEN Len(rsv) ELSE Least(last) - 1) |->
        Row(0, "memreserve", "", "", Text("cells", <<>>, Plain(rsv[i])))]

ListView(v, path) ==
  LET title == IF path # <<>> THEN <<>>
               ELSE <<Row(0, IF v.dtbo THEN "plugin" ELSE "dts", "", "", NoText)>>
                    \o fdt_show_memreserve(vol.trees[packed.units[1]].rsv)
      Shown(root, frags) == IF root = NULL THEN [ok |-> FALSE, rows |-> title]
                            ELSE [ok |-> frags.ok, rows |-> title \o fdt_list_node(v, root, 0) \o frags.rows]
  IN Shown(device_node_find_bypath(v.tree, v.root, path),
           IF v.dtbo THEN fdt_list_fragments(v) ELSE [ok |-> TRUE, rows |-> <<>>])
fdt_list(f, path, verbose) ==
  ListView(View(IF verbose THEN f ELSE fdt_prepare_dtbo_externs(f), verbose, FALSE), path)

-----------------------------------------------------------------------------
(* FIT images.                                                             *)
DeleteNamed(tree, parent, name) ==
  IF parent = NULL THEN tree
  ELSE device_node_delete(tree, parent, device_node_find_byname(tree, parent, name))

(* Where an image says its data is.                                        *)
U32Of(tree, node, name) ==
  LET prop == device_node_find_byname(tree, node, name)
  IN IF prop # NULL /\ IsU32(tree[prop].data) THEN tree[prop].data.c[1] ELSE -1
FitData(tree, node) == [size |-> U32Of(tree, node, "data-size"), pos |-> U32Of(tree, node, "data-position")]
HasData(d) == d.size >= 0 /\ d.pos >= 0
Images(f) == device_node_find_bypath(f.tree, f.root, <<"images">>)

(* In the tree, the place of the data gives way to the file.               *)
WithoutData(tree, node) ==
  DeleteNamed(DeleteNamed(DeleteNamed(tree, node, "data-size"), node, "data-position"),
              device_node_find_byname(tree, node, "hash"), "value")
WithIncbin(tree, node) ==
  LET shown == WithoutData(tree, node)
      data == Node("data", FALSE, Value("strings", <<Incbin(tree[node].name)>>, <<>>))
  IN [Append(shown, data) EXCEPT ![node].kids = <<Len(shown) + 1>> \o @]

fit_get_total_size(f) ==
  LET kids == f.tree[Images(f)].kids
      End(k) == LET d == FitData(f.tree, k) IN (d.pos + d.size) % Word
  IN IF Images(f) = NULL \/ \E k \in Range(kids) : ~HasData(FitData(f.tree, k)) THEN -1
     ELSE FoldLeft(LAMBDA n, k : IF End(k) > n THEN End(k) ELSE n, f.totalsize, kids)

-----------------------------------------------------------------------------
FdtDetect ==
  /\ Begins("fdt", {"dts", "dtsv", "fit", "fitsize"})
  /\ LET Takes(f) == IF f.ok /\ (cmd.name \in {"fit", "fitsize"} => vol.forced)
                       THEN loaded' = f /\ Stage("start") ELSE Stops(-1) /\ UNCHANGED loaded
     IN Takes(fdt_detect(packed.units, 0))
  /\ UNCHANGED <<readerVars, at, out, dir, packed>>

FdtList ==
  /\ In("fdt", "start") /\ cmd.name \in {"dts", "dtsv"}
  /\ LET Shows(s) == out' = s.rows /\ Stops(IF s.ok THEN 0 ELSE -1)
     IN Shows(fdt_list(loaded, cmd.arg, cmd.name = "dtsv"))
  /\ UNCHANGED <<readerVars, at, dir, loaded, packed>>

FitTotalSize ==
  /\ In("fdt", "start") /\ cmd.name = "fitsize"
  /\ LET Says(size) == IF size < 0 THEN Stops(-1) /\ UNCHANGED out
                       ELSE Stops(0) /\ out' = <<Row(0, "size", "", "", Text("cells", <<>>, <<Cell("", size)>>))>>
     IN Says(fit_get_total_size(loaded))
  /\ UNCHANGED <<readerVars, at, dir, loaded, packed>>

FitUnpack ==
  /\ In("fdt", "start") /\ cmd.name = "fit"
  /\ IF Images(loaded) = NULL THEN Stops(-1) /\ UNCHANGED loaded
     ELSE loaded' = [loaded EXCEPT !.tree = DeleteNamed(@, loaded.root, "timestamp")] /\ Stage("unpack")
  /\ UNCHANGED <<readerVars, at, out, dir, packed>>

(* An image is copied over the file it had, which is not truncated; when   *)
(* that cannot be opened unpack returns the descriptor of the input, which *)
(* is neither success nor an error number.                                 *)
Image == loaded.tree[Images(loaded)].kids[at + 1]
FitUnpackImage ==
  /\ In("fdt", "unpack") /\ at < Len(loaded.tree[Images(loaded)].kids)
  /\ LET d == FitData(loaded.tree, Image)
         name == loaded.tree[Image].name
         old == IF name \in DOMAIN dir.files THEN dir.files[name] ELSE <<>>
     IN CASE ~HasData(d) -> Stops(-1) /\ UNCHANGED <<at, dir, loaded>>
          [] HasData(d) /\ Locked(name) ->
               /\ loaded' = [loaded EXCEPT !.tree = WithoutData(@, Image)]
               /\ Stops(InputFd) /\ UNCHANGED <<at, dir>>
          [] OTHER ->
               /\ dir' = [dir EXCEPT !.files = With(@, name, WriteAt(old, 0, ReadUnits(packed.units, d.pos, d.size), 0))]
               /\ loaded' = [loaded EXCEPT !.tree = WithIncbin(@, Image)]
               /\ at' = at + 1 /\ UNCHANGED <<pc, stage, ret>>
  /\ UNCHANGED <<readerVars, out, packed>>

FitUnpackEnd ==
  /\ In("fdt", "unpack") /\ at = Len(loaded.tree[Images(loaded)].kids)
  /\ IF Locked("image.its") THEN Stops(-1) /\ UNCHANGED dir
     ELSE /\ Stops(0)
          /\ dir' = [dir EXCEPT !.cfg = <<Row(0, "dts", "", "", NoText)>>
                                        \o fdt_list_node(View(loaded, FALSE, TRUE), loaded.root, 0)]
  /\ UNCHANGED <<readerVars, at, out, loaded, packed>>

FdtNext == FdtDetect \/ FdtList \/ FitTotalSize \/ FitUnpack \/ FitUnpackImage \/ FitUnpackEnd
=============================================================================
