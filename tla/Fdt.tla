---------------------------------- MODULE Fdt ----------------------------------
(***************************************************************************)
(* fdt/fdt.c: a flattened device tree is read into nodes, labels are found *)
(* among the symbols, external references of an overlay get numbers, and   *)
(* the tree is shown as a source text that compiles to it again.  A FIT    *)
(* image is a device tree and the files it names, which lie after it.      *)
(*                                                                         *)
(* A value of a property is nothing, strings s, cells c of 32 bits, or     *)
(* bytes c that are neither.  A string is a tuple of names, as a path is.  *)
(* A unit of a file from which a tree can be read is in vol.trees.         *)
(***************************************************************************)
EXTENDS Containers

CONSTANTS FDT_MAX_DEPTH,
          FDT_EDITOR_MAX_DTB_SIZE,
          MaxCells,     \* cells and bytes of a value that are printed at most (32)
          Externs,      \* numbers with FDT_DTBO_EXTERN_PHANDLE_MAGIC
          Offsets,      \* the numbers that strings in __fixups__ end with
          References,   \* the properties known to refer to nodes, and how: [cells, fix]
          Fragments     \* names that begin with "fragment@"

ASSUME FdtAssumption ==
  /\ FDT_MAX_DEPTH \in Nat /\ FDT_EDITOR_MAX_DTB_SIZE \in Nat /\ MaxCells \in Nat
  /\ Externs # {} /\ Externs \subseteq 0 .. Word - 1

Value(k, s, c) == [k |-> k, s |-> s, c |-> c]
NoValue == Value("none", <<>>, <<>>)

-----------------------------------------------------------------------------
(* Device nodes.  A property is a node too, with data.                     *)
NULL == 0
Node(name, is_node, data) ==
  [name |-> name, label |-> "", kids |-> <<>>, is_node |-> is_node, data |-> data]
new_device_node(tree, node, parent) ==
  LET added == Append(tree, node)
  IN IF parent = NULL THEN added ELSE [added EXCEPT ![parent].kids = Append(@, Len(added))]

FirstOf(nodes) == IF nodes = <<>> THEN NULL ELSE Head(nodes)
device_node_find_byname(tree, i, name) ==
  FirstOf(SelectSeq(tree[i].kids, LAMBDA k : tree[k].name = name))
device_node_find_bypath(tree, i, path) ==
  FoldLeft(LAMBDA n, name : IF n = NULL THEN NULL ELSE device_node_find_byname(tree, n, name), i, path)

IsU32(data) == data.k = "cells" /\ Len(data.c) = 1
Kids(tree, i) == {tree[i].kids[k] : k \in DOMAIN tree[i].kids}
device_node_match_phandle(tree, i, phandle) ==
  \E p \in Kids(tree, i) : tree[p].name = "phandle" /\ IsU32(tree[p].data) /\ tree[p].data.c[1] = phandle

(* A node before the nodes in it.                                          *)
Below(tree, root) ==
  LET From[i \in DOMAIN tree] == FlattenSeq([k \in DOMAIN tree[i].kids |-> <<tree[i].kids[k]>> \o From[tree[i].kids[k]]])
  IN From[root]
device_node_search_phandle(tree, root, phandle) ==
  FirstOf(SelectSeq(Below(tree, root), LAMBDA i : device_node_match_phandle(tree, i, phandle)))
device_node_delete(tree, parent, i) == [tree EXCEPT ![parent].kids = SelectSeq(@, LAMBDA k : k # i)]

-----------------------------------------------------------------------------
(* fdt_unflatten: tag after tag, with the nodes that are open.             *)
NoTree == [ok |-> TRUE, ended |-> FALSE, tree |-> <<>>, open |-> <<>>, root |-> NULL]
Parent(s) == IF s.open = <<>> THEN NULL ELSE Last(s.open)
FailedTree(s) == [s EXCEPT !.ok = FALSE, !.ended = TRUE]

BeginNode(s, t) ==
  LET tree == new_device_node(s.tree, Node(t.name, TRUE, NoValue), Parent(s))
  IN IF Len(s.open) + 1 >= FDT_MAX_DEPTH THEN FailedTree(s)
     ELSE [s EXCEPT !.tree = tree, !.open = Append(@, Len(tree)),
                    !.root = IF s.open = <<>> THEN Len(tree) ELSE @]
EndNode(s) == IF s.open = <<>> THEN FailedTree(s) ELSE [s EXCEPT !.open = Front(@)]
Tag(s, t) ==
  IF s.ended THEN s
  ELSE CASE t.tag = "begin" -> BeginNode(s, t)
         [] t.tag = "nop" -> s
         [] t.tag = "prop" -> [s EXCEPT !.tree = new_device_node(@, Node(t.name, FALSE, t.val), Parent(s))]
         [] t.tag = "end" -> EndNode(s)
         [] t.tag = "END" -> [s EXCEPT !.ended = TRUE]
         [] OTHER -> FailedTree(s)

(* __symbols__ { label = "/path"; }                                        *)
fdt_load_symbols(tree, root) ==
  LET symbols == device_node_find_byname(tree, root, "__symbols__")
      Label(t, s) == LET target == device_node_find_bypath(t, root, t[s].data.s[1])
                     IN IF target = NULL THEN t ELSE [t EXCEPT ![target].label = t[s].name]
  IN IF symbols = NULL THEN tree ELSE FoldLeft(Label, tree, tree[symbols].kids)

Labelled(s) == IF s.ok THEN [s EXCEPT !.tree = fdt_load_symbols(@, s.root)] ELSE s
fdt_unflatten(tags) == Labelled(FoldLeft(Tag, NoTree, tags))

(* __fixups__ { label = "/path:property:offset", ...; } gives each label   *)
(* the next number, and puts it where the strings say (fdt_apply_fixups).  *)
fdt_apply_fixup(tree, root, phandle, s) ==
  LET target == device_node_find_bypath(tree, root, SubSeq(s, 1, Len(s) - 2))
      prop == IF Len(s) < 2 \/ target = NULL THEN NULL ELSE device_node_find_byname(tree, target, s[Len(s) - 1])
      offset == IF Last(s) \in DOMAIN Offsets THEN Offsets[Last(s)] ELSE -1
  IN IF prop # NULL /\ tree[target].is_node /\ offset >= 0 /\ offset % 4 = 0
        /\ offset \div 4 < Len(tree[prop].data.c)
       THEN [tree EXCEPT ![prop].data.c[offset \div 4 + 1] = phandle] ELSE tree
fdt_prepare_dtbo_externs(f) ==
  LET fixups == device_node_find_byname(f.tree, f.root, "__fixups__")
      labels == f.tree[fixups].kids
      Phandle(k) == Least(Externs) + k - 1
      Fixup(tree, k) == FoldLeft(LAMBDA t, s : fdt_apply_fixup(t, f.root, Phandle(k), s),
                                 tree, tree[labels[k]].data.s)
  IN IF fixups = NULL \/ ~f.tree[fixups].is_node THEN f
     ELSE [f EXCEPT !.dtbo = TRUE, !.tree = FoldLeft(Fixup, f.tree, [k \in DOMAIN labels |-> k]),
                    !.extern = [k \in DOMAIN labels |-> [label |-> f.tree[labels[k]].name, phandle |-> Phandle(k)]]]

(* fdt_detect of the file that begins at an offset of units.               *)
NoFdt == [ok |-> FALSE, tree |-> <<>>, root |-> NULL, extern |-> <<>>, dtbo |-> FALSE, totalsize |-> 0]
Detected(s, totalsize) == [NoFdt EXCEPT !.ok = s.ok, !.tree = s.tree, !.root = s.root, !.totalsize = totalsize]
fdt_detect(units, offset) ==
  LET d == vol.trees[units[offset + 1]]
      magic == offset < Len(units) /\ units[offset + 1] \in DOMAIN vol.trees
      sizes == d.totalsize # 0 /\ \A n \in {d.totalsize} \cup d.offsets : n <= FDT_EDITOR_MAX_DTB_SIZE
  IN IF magic /\ sizes THEN Detected(fdt_unflatten(d.tags), d.totalsize) ELSE NoFdt
=============================================================================
