------------------------------- MODULE MCEditors -------------------------------
(* Editors on the volumes of MCFileSystems, and on small trees, FIT images, *)
(* tables of trees and boot images.                                         *)
EXTENDS MCFileSystems, Editors

NoTrees == [u \in {} |-> 0]
Directory(cfg, files) == [cfg |-> cfg, files |-> files]
Container(fs, i, directory, trees) ==
  [fs |-> fs, blocks |-> 0, total_blocks |-> 0, sound |-> TRUE, packed |-> FALSE, forced |-> FALSE, image |-> i,
   dir |-> directory, trees |-> trees, locked |-> {}, source |-> <<>>, content |-> NoFiles, want |-> NoImage]
Img(head, entries, units) == [head |-> head, entries |-> entries, units |-> units]
DtbTree(size, tags) == [totalsize |-> size, offsets |-> {1}, tags |-> tags, rsv |-> <<>>]

-----------------------------------------------------------------------------
(* A device tree source.  A property is in the text, in the tree, or both.  *)
Src(name, label, props, kids) == [name |-> name, label |-> label, props |-> props, kids |-> kids]
P(name, k, s, c) == [name |-> name, k |-> k, s |-> s, c |-> c, where |-> "both"]
PFlag(name) == P(name, "none", <<>>, <<>>)
PStr(name, s) == P(name, "strings", s, <<>>)
PNum(name, c) == P(name, "cells", <<>>, [i \in DOMAIN c |-> Cell("", c[i])])
PRef(name, c) == P(name, "cells", <<>>, c)
PAlias(name, label) == P(name, "alias", <<<<label>>>>, <<>>)
InTree(p) == [p EXCEPT !.where = "tree"]
InText(p) == [p EXCEPT !.where = "text"]
Ref(label) == Cell(label, 0)
Num(n) == Cell("", n)

(* The phandles that dtc gives to labels of a tree; those of labels that    *)
(* are not in it are found by the reader.                                   *)
Phandle == [gic |-> 1, clk |-> 2, osc |-> 3, pio |-> 4, pins |-> 5, vcc |-> 6, sram |-> 7, led |-> 8]
Unresolved == Word - 1
RECURSIVE LabelsOf(_, _)
LabelsOf(n, path) ==
  (IF n.label = "" THEN <<>> ELSE <<[label |-> n.label, path |-> path]>>)
  \o FlattenSeq([k \in DOMAIN n.kids |-> LabelsOf(n.kids[k], Append(path, n.kids[k].name))])
RECURSIVE RefsOf(_, _)
RefsOf(n, path) ==
  FlattenSeq([k \in DOMAIN n.props |-> FlattenSeq([i \in DOMAIN n.props[k].c |->
     IF n.props[k].c[i].ref = "" THEN <<>>
     ELSE <<[label |-> n.props[k].c[i].ref, s |-> path \o <<n.props[k].name, <<"0", "4", "8", "12">>[i]>>]>>])])
  \o FlattenSeq([k \in DOMAIN n.kids |-> RefsOf(n.kids[k], Append(path, n.kids[k].name))])

TagProp(name, val) == [tag |-> "prop", name |-> name, val |-> val]
TagBegin(name) == [tag |-> "begin", name |-> name, val |-> NoValue]
TagEnd == [tag |-> "end", name |-> "", val |-> NoValue]
TagOther(t) == [tag |-> t, name |-> "", val |-> NoValue]
ValueOf(p, labels) ==
  CASE p.k = "alias" -> Value("strings", <<SelectSeq(labels, LAMBDA l : l.label = p.s[1][1])[1].path>>, <<>>)
    [] OTHER -> Value(p.k, p.s, [i \in DOMAIN p.c |->
         IF p.c[i].ref = "" THEN p.c[i].n
         ELSE IF \E k \in DOMAIN labels : labels[k].label = p.c[i].ref THEN Phandle[p.c[i].ref] ELSE Unresolved])
RECURSIVE TagsOf(_, _, _, _)
TagsOf(n, labels, refs, more) ==
  LET props == SelectSeq(n.props, LAMBDA p : p.where # "text")
      given == n.label # "" /\ \E r \in Range(refs) : r.label = n.label
  IN <<TagBegin(n.name)>> \o [k \in DOMAIN props |-> TagProp(props[k].name, ValueOf(props[k], labels))]
     \o (IF given THEN <<TagProp("phandle", Value("cells", <<>>, <<Phandle[n.label]>>))>> ELSE <<>>)
     \o FlattenSeq([k \in DOMAIN n.kids |-> TagsOf(n.kids[k], labels, refs, <<>>)]) \o more \o <<TagEnd>>
SymbolsOf(labels) ==
  <<TagBegin("__symbols__")>>
  \o [k \in DOMAIN labels |-> TagProp(labels[k].label, Value("strings", <<labels[k].path>>, <<>>))] \o <<TagEnd>>
FixupsOf(labels, refs) ==
  LET outer == SelectSeq(refs, LAMBDA r : \A k \in DOMAIN labels : labels[k].label # r.label)
      names == SelectSeq([k \in DOMAIN outer |-> IF \E j \in 1 .. k - 1 : outer[j].label = outer[k].label THEN "" ELSE outer[k].label],
                         LAMBDA l : l # "")
      Strings(l) == LET of == SelectSeq(outer, LAMBDA r : r.label = l) IN [k \in DOMAIN of |-> of[k].s]
  IN IF outer = <<>> THEN <<>>
     ELSE <<TagBegin("__fixups__")>>
          \o [k \in DOMAIN names |-> TagProp(names[k], Value("strings", Strings(names[k]), <<>>))] \o <<TagEnd>>
Dtc(n, symbols) ==
  LET labels == LabelsOf(n, <<>>)
      refs == RefsOf(n, <<>>)
  IN TagsOf(n, labels, refs, (IF symbols THEN SymbolsOf(labels) ELSE <<>>) \o FixupsOf(labels, refs)) \o <<TagOther("END")>>

(* The text, with the frags of an overlay as references.                *)
TextOf(p) ==
  Text(CASE p.k = "none" -> "flag" [] p.where = "text" -> "incbin" [] OTHER -> p.k, p.s, p.c)
RECURSIVE BodyOf(_, _)
RowsOf(n, depth) ==
  <<Row(depth, "begin", n.name, n.label, NoText)>> \o BodyOf(n, depth + 1) \o <<Row(depth, "end", "", "", NoText)>>
BodyOf(n, depth) ==
  LET props == SelectSeq(n.props, LAMBDA p : p.where # "tree")
      kids == SelectSeq(n.kids, LAMBDA k : k.name \notin Fragments)
  IN [k \in DOMAIN props |->
        IF props[k].k = "alias" THEN Row(depth, "alias", props[k].name, props[k].s[1][1], NoText)
                                ELSE Row(depth, "prop", props[k].name, "", TextOf(props[k]))]
     \o FlattenSeq([k \in DOMAIN kids |-> RowsOf(kids[k], depth)])
FragmentRows(n) ==
  LET frags == SelectSeq(n.kids, LAMBDA k : k.name \in Fragments)
  IN FlattenSeq([k \in DOMAIN frags |->
       <<Row(0, "refer", "", frags[k].props[1].c[1].ref, NoText)>> \o BodyOf(frags[k].kids[1], 1)
       \o <<Row(0, "end", "", "", NoText)>>])
SourceText(n, title) == <<Row(0, title, "", "", NoText)>> \o RowsOf(n, 0) \o FragmentRows(n)
Dtb(n, title) ==
  [Container("fdt", Img(<<>>, <<>>, <<1, 0>>), NoDirectory, [u \in {1} |-> DtbTree(2, Dtc(n, TRUE))])
     EXCEPT !.source = SourceText(n, title)]

(* Every way to refer to a node, aliases with and without a label, nodes    *)
(* deep enough, and values of each kind.                                    *)
Intc == Src("intc", "gic", <<PFlag("interrupt-controller"), PNum("#interrupt-cells", <<3>>)>>, <<>>)
Osc == Src("osc", "osc", <<PNum("#clock-cells", <<0>>)>>, <<>>)
Clk == Src("clk", "clk", <<PNum("#clock-cells", <<1>>)>>, <<>>)
Pins == Src("uart-pins", "pins", <<PStr("function", <<<<"uart">>>>)>>, <<>>)
Pio == Src("pio", "pio", <<PNum("#gpio-cells", <<2>>)>>, <<Pins>>)
Uart ==
  Src("uart", "uart",
      <<PStr("compatible", <<<<"a">>, <<"b">>>>), PNum("reg", <<0, 100>>), PNum("interrupts", <<0, 36, 4>>),
        PRef("clocks", <<Ref("clk"), Num(1), Ref("osc")>>), PRef("cs-gpios", <<Num(0), Ref("pio"), Num(6), Num(1)>>),
        PRef("pinctrl-0", <<Ref("pins")>>), PRef("vcc-supply", <<Ref("vcc")>>), PRef("allwinner,sram", <<Ref("sram"), Num(1)>>),
        P("mac", "bytes", <<>>, Plain(<<1, 2, 3>>))>>, <<>>)
Board ==
  Src("", "", <<PStr("model", <<<<"m">>>>), PNum("#address-cells", <<1>>), PRef("interrupt-parent", <<Ref("gic")>>)>>,
      <<Src("aliases", "", <<PAlias("serial0", "uart"), PAlias("gpio0", "pins"), PStr("eth0", <<<<"none">>>>)>>, <<>>),
        Intc, Osc, Clk, Pio, Src("vcc", "vcc", <<PFlag("always-on")>>, <<>>), Src("sram", "sram", <<>>, <<>>),
        Src("soc", "", <<>>, <<Uart>>)>>)

(* An overlay: two fragments, labels of the tree below it and one of its    *)
(* own.  In the second, the cells that follow a label end at the next one.  *)
Fragment(name, label, props, kids) ==
  Src(name, "", <<PRef("target", <<Ref(label)>>)>>, <<Src("__overlay__", "", props, kids)>>)
Led == Src("led", "led", <<PNum("reg", <<4>>)>>, <<>>)
Overlay ==
  Src("", "", <<PStr("model", <<<<"o">>>>)>>,
      <<Fragment("fragment@0", "bus", <<PStr("status", <<<<"okay">>>>)>>,
                 <<Led, Src("user", "", <<PRef("trip", <<Ref("led")>>)>>, <<>>)>>),
        Fragment("fragment@1", "spi", <<PRef("clocks", <<Ref("ccu"), Num(1), Num(2), Ref("ccu"), Num(3)>>),
                                        PRef("cs-gpios", <<Ref("bus"), Num(7)>>), PRef("allwinner,sram", <<Ref("spi"), Num(9)>>)>>, <<>>)>>)

FitImage(name, size, pos) ==
  Src(name, "", <<InText(P("data", "strings", <<Incbin(name)>>, <<>>)), PStr("type", <<<<name>>>>),
                  InTree(PNum("data-size", <<size>>)), InTree(PNum("data-position", <<pos>>))>>,
      <<Src("hash", "", <<InTree(PNum("value", <<77>>)), PStr("algo", <<<<"sha1">>>>)>>, <<>>)>>)
Its == Src("", "", <<InTree(PNum("timestamp", <<99>>)), PStr("description", <<<<"fit">>>>)>>,
           <<Src("images", "", <<>>, <<FitImage("kernel", 3, 2), FitImage("dtb", 2, 6)>>),
             Src("configurations", "", <<PStr("default", <<<<"c">>>>)>>, <<>>)>>)
FitOf(n) ==
  [Dtb(n, "dts") EXCEPT !.image.units = <<1, 0, 21, 22, 23, 0, 31, 32>>, !.trees[1].tags = Dtc(n, FALSE),
                        !.content = [kernel |-> <<21, 22, 23>>, dtb |-> <<31, 32>>], !.forced = TRUE]

UnsoundTree(v) == [v EXCEPT !.sound = FALSE]
Deep == Src("a", "", <<>>, <<Src("b", "", <<>>, <<Src("c", "", <<>>, <<Src("d", "", <<>>, <<Src("e", "", <<>>, <<>>)>>)>>)>>)>>)
Numbers ==
  Src("", "", <<PNum("wide", <<1, 2, 3, 4, 5, 6, 7, 8>>), PNum("minus", <<255, 0>>), PNum("#size-cells", <<200>>),
                PNum("clocks", <<9>>), PNum("#gpio-cells", <<1, 1>>), PNum("high", <<255, 37>>),
                P("long", "bytes", <<>>, Plain(<<1, 2, 3, 4, 5, 6, 7>>)), PRef("cs-gpios", <<Ref("clk")>>)>>,
      <<Clk, Src("minus", "", <<PRef("clocks", <<Ref("clk")>>)>>, <<>>)>>)
FixupTags(s) ==
  <<TagBegin(""), TagProp("clocks", Value("cells", <<>>, <<255>>)), TagBegin("__fixups__"),
    TagProp("ccu", Value("strings", <<s>>, <<>>)), TagEnd, TagEnd, TagOther("END")>>
FragmentTags(tags) ==
  <<TagBegin(""), TagBegin("fragment@0")>> \o tags \o <<TagEnd, TagBegin("__fixups__"),
    TagProp("bus", Value("strings", <<<<"fragment@0", "target", "0">>>>, <<>>)), TagEnd, TagEnd, TagOther("END")>>
Target(c) == TagProp("target", Value("cells", <<>>, c))
OverlayTags == <<TagBegin("__overlay__"), TagEnd>>

(* Trees that were compiled without symbols, and trees no compiler makes.   *)
Images1(i) == Src("", "", <<>>, <<Src("images", "", <<>>, <<FitImage("kernel", 3, 2), i>>)>>)
OddTags ==
  [i \in 1 .. 3 |-> Dtc(<<Board, Numbers, Deep>>[i], i = 2)]
  \o <<<<TagBegin(""), TagOther("nop"), TagEnd, TagOther("END"), TagOther("bad")>>, <<TagBegin(""), TagOther("bad")>>,
       <<TagBegin(""), TagEnd, TagEnd, TagOther("END")>>>>
  \o [i \in 1 .. 6 |-> FixupTags(<<<<"clocks", "0">>, <<"clocks", "2">>, <<"clocks", "4">>, <<"clocks", "x">>,
                                    <<"none", "clocks", "0">>, <<"none", "0">>>>[i])]
  \o [i \in 1 .. 4 |-> FragmentTags(<<OverlayTags, <<Target(<<255>>)>>, <<Target(<<255, 1>>)>> \o OverlayTags,
                                      <<Target(<<255>>), TagProp("__overlay__", NoValue)>>>>[i])]
TreeVariants(v) ==
  <<[v EXCEPT !.trees[1].rsv = <<<<5, 6>>, <<7, 0>>, <<8, 9>>>>], [v EXCEPT !.trees[1].totalsize = 0],
    [v EXCEPT !.trees[1].totalsize = 9], [v EXCEPT !.trees[1].offsets = {1, 9}], [v EXCEPT !.image.units = <<5>>]>>
  \o [i \in DOMAIN OddTags |-> [v EXCEPT !.trees[1].tags = OddTags[i]]]
FitVariants(v) ==
  <<[v EXCEPT !.locked = {"dtb"}], [v EXCEPT !.locked = {"image.its"}], [v EXCEPT !.dir.files = [kernel |-> <<9, 9, 9, 9, 9>>]],
    [v EXCEPT !.image.units = <<1, 0, 21, 22>>], [v EXCEPT !.forced = FALSE]>>
  \o [i \in 1 .. 3 |-> [v EXCEPT !.trees[1].tags = Dtc(<<Images1(Osc), Images1(FitImage("dtb", 250, 10)), Board>>[i], FALSE)]]
FdtVolumes ==
  <<Dtb(Board, "dts"), Dtb(Overlay, "plugin"), FitOf(Its)>>
  \o TreeVariants(UnsoundTree(Dtb(Board, "dts"))) \o FitVariants(UnsoundTree(FitOf(Its)))

-----------------------------------------------------------------------------
(* Tables of trees: v is custom0 .. custom3 after the id and the revision.  *)
Board1 == Src("", "", <<PNum("board_id", <<5>>), PNum("board_rev", <<6>>), PNum("other_id", <<7>>)>>,
              <<Src("chosen", "", <<PNum("board_id", <<8>>), PNum("board_rev", <<9>>)>>, <<>>)>>)
Board2 == Src("", "", <<PNum("other_id", <<1>>)>>, <<>>)
Board3 == Src("", "", <<PNum("board_id", <<1, 2>>)>>, <<>>)
BoardTrees == [u \in {1} |-> DtbTree(2, Dtc(Board1, FALSE))] @@ [u \in {2} |-> DtbTree(2, Dtc(Board2, FALSE))]
              @@ [u \in {3} |-> DtbTree(2, Dtc(Board3, FALSE))]
EntryOf(size, offset, n) ==
  [size |-> size, offset |-> offset, v |-> [key \in Range(EntryKeys) |-> n[CHOOSE i \in 1 .. 6 : EntryKeys[i] = key]]]
Headers(count) == [i \in 1 .. DtHeaderUnits + DtEntryUnits * count |-> 0]
(* The files of a table, of two units each, with what their entries say.    *)
TableOf(files, numbers) ==
  LET n == Len(files)
      At0(i) == DtHeaderUnits + DtEntryUnits * n + 2 * (i - 1)
  IN Img(DtHead(n, At0(n + 1)), [i \in 1 .. n |-> EntryOf(2, At0(i), numbers[i])], Headers(n) \o FlattenSeq(files))
Table(files, numbers) ==
  [Container("dtimg", TableOf(files, numbers), Directory(<<>>, NoFiles), BoardTrees) EXCEPT !.want = TableOf(<<>>, <<>>)]

Opt(key, value) == <<SpaceChar, SpaceChar, key, "=">> \o value
Asks(key, n) == Opt(key, <<ToString(n)>>)
Path(name) == <<"/", ":", name>>
Remark == <<SpaceChar, "#", SpaceChar, "remark">>
BoardFiles == [f \in {"a.dtb"} |-> <<1, 0>>] @@ [f \in {"b.dtb"} |-> <<2, 9>>] @@ [f \in {"c.dtb"} |-> <<3, 0>>]
              @@ [f \in {"d.dtb"} |-> <<4, 0>>]
Globals == <<<<"#", SpaceChar, "options">>, Opt("page_size", <<"2048">>), Opt("id", Path("board_id") \o Remark),
             Opt("rev", Path("board_rev")), Asks("custom0", 11), <<>>, <<"a.dtb">>>>
Cfg1 == Globals \o <<<<"a.dtb">>, Opt("id", Path("other_id") \o Remark), <<"b.dtb">>, Opt("rev", <<"12">> \o Remark), Asks("id", 0),
                     <<"a.dtb">>, Asks("custom0", 13), Opt("custom3", <<"300">>)>>
(* A node and a property: with ':' between them they are one name.         *)
Cfg2 == Globals \o <<<<"a.dtb">>, Opt("id", <<"/", "chosen", ":", "board_id">>), Opt("rev", <<"/", "chosen", "/", "board_rev">>),
                     <<"a.dtb">>, Opt("id", <<"/", "chosen", "/", ":", "board_id">>)>>
OddLines ==
  <<<<<<"c.dtb">>>>, <<<<"d.dtb">>>>, <<<<"none">>>>, <<<<"__global_option">>>>, <<<<"a.dtb", SpaceChar>> \o Remark>>, <<Opt("custom1", <<"word">>)>>,
    <<Opt("custom1", <<>>)>>, <<Opt("rev", <<"1", SpaceChar, "2">>)>>, <<Opt("rev", <<"1", "=", "2">>)>>,
    <<<<"rev", SpaceChar, "x", "=", "1">>>>, <<Opt("rev", <<"\"", "/", "board_rev", "\"">>), <<"[", "a.dtb", "]">>, <<";", "c">>>>,
    <<Opt("id", <<"\"", SpaceChar, "#", "\"">>), <<"[", "a.dtb", "=", "]">>>>>>
Configured(v, want1, want2) ==
  <<[v EXCEPT !.dir = Directory(Cfg1, BoardFiles), !.want = want1], [v EXCEPT !.dir = Directory(Cfg2, BoardFiles), !.want = want2]>>
  \o [i \in DOMAIN OddLines |-> [v EXCEPT !.dir = Directory(Globals \o OddLines[i], BoardFiles), !.sound = FALSE]]
TableVariants(v) ==
  <<[v EXCEPT !.image.head.magic = FALSE], [v EXCEPT !.image.head.version = 1], [v EXCEPT !.image.head.page_size = 1],
    [v EXCEPT !.image.head.dt_entries_offset = 1], [v EXCEPT !.image.head.header_size = 1], [v EXCEPT !.image.head.dt_entry_size = 3],
    [v EXCEPT !.image.head.dt_entry_count = 3], [v EXCEPT !.image.units[5] = 7], [v EXCEPT !.image.entries[2].size = 9],
    [v EXCEPT !.locked = {"dtboimg.cfg"}], [v EXCEPT !.locked = {BoardNames[1]}]>>
Numbered2 == <<<<<<5, 6, 11, 0, 3, 0>>, <<1, 0, 12, 9, 0, 2>>>>, <<<<5, 9, 0, 4, 0, 0>>, <<0, 6, 12, 4, 0, 2>>>>,
               <<<<0, 0, 11, 4, 5, 6>>, <<0, 0, 11, 4, 5, 6>>>>>>
DtimgVolumes ==
  [i \in 1 .. 3 |-> Table(<<<<1, 0>>, <<2, 9>>>>, Numbered2[i])]
  \o Configured(Table(<<>>, <<>>),
                TableOf(<<<<1, 0>>, <<1, 0>>, <<2, 9>>, <<1, 0>>>>,
                        <<<<5, 6, 11, 0, 0, 0>>, <<7, 6, 11, 0, 0, 0>>, <<0, 12, 11, 0, 0, 0>>, <<5, 6, 13, 0, 0, 44>>>>),
                TableOf(<<<<1, 0>>, <<1, 0>>, <<1, 0>>>>, <<<<5, 6, 11, 0, 0, 0>>, <<0, 9, 11, 0, 0, 0>>, <<8, 6, 11, 0, 0, 0>>>>))
  \o TableVariants(UnsoundTree(Table(<<<<1, 0>>, <<2, 9>>>>, Numbered2[1])))

-----------------------------------------------------------------------------
(* Boot images.  The SHA1 is that of the files, each with its size after    *)
(* it: padded with one unit, zeros, and the length, in whole blocks.        *)
Digested(m) ==
  LET n == ((Len(m) + 2 + SHA1_Message_Block_Size - 1) \div SHA1_Message_Block_Size) * SHA1_Message_Block_Size
      padded == m \o <<Pad_Byte>> \o [i \in 1 .. n - Len(m) - 2 |-> 0] \o <<Len(m)>>
  IN [k \in 1 .. n \div SHA1_Message_Block_Size |->
        SubSeq(padded, (k - 1) * SHA1_Message_Block_Size + 1, k * SHA1_Message_Block_Size)]

(* sizes of the files, and the version of the header.                       *)
FileUnits(name, n) == [i \in 1 .. n |-> name * 10 + i]
BootOf(version, page, sizes) ==
  LET files == [i \in 1 .. 5 |-> FileUnits(i, sizes[i])]
      OnPages(u) == u \o [i \in 1 .. (page - (Len(u) % page)) % page |-> 0]
  IN [Container("bootimg",
        Img([ZeroHead EXCEPT !.magic = TRUE, !.kernel_addr = 7, !.page_size = page, !.header_version = version, !.name = <<1, 2>>,
               !.size = sizes, !.header_size = IF version = 0 THEN 0 ELSE 9, !.dtb_addr = IF version < 2 THEN 0 ELSE 8,
               !.recovery_dtbo_offset = IF version = 0 THEN 0 ELSE 6,
               !.id = Digested(FlattenSeq([i \in 1 .. 3 + version |-> files[i] \o <<sizes[i]>>]))],
            <<>>, [i \in 1 .. page |-> 0] \o FlattenSeq([i \in 1 .. 5 |-> OnPages(files[i])])),
        Directory([f \in {} |-> 0], NoFiles), NoTrees)
      EXCEPT !.content = [name \in {abootimg_files[i] : i \in {j \in 1 .. 5 : sizes[j] > 0}} |->
                            files[CHOOSE i \in 1 .. 5 : abootimg_files[i] = name]]]
Json(version, page, files) ==
  [kernel_addr |-> 7, page_size |-> page, header_version |-> version, name |-> <<1, 2, 3, 4>>, files |-> files]
Kernel == <<"kernel.bin">>
Packs ==
  <<[json |-> Json(0, 4, Kernel), sizes |-> <<3>>], [json |-> Json(0, 4, Kernel), sizes |-> <<0>>],
    [json |-> Json(2, 2, abootimg_files), sizes |-> <<3, 0, 5, 2, 1>>], [json |-> Json(0, 4, <<"kernel.bin", "second.bin">>), sizes |-> <<5, 1>>],
    [json |-> Json(0, 4, <<"recovery_dtbo.bin">>), sizes |-> <<5, 1, 1, 1>>], [json |-> Json(1, 4, <<"kernel.bin", "dtb.bin">>), sizes |-> <<5, 1, 1, 1, 1>>],
    [json |-> Json(1, 4, <<"recovery_dtbo.bin", "dtb.bin">>), sizes |-> <<5, 1, 1, 1, 1>>], [json |-> Json(3, 4, Kernel), sizes |-> <<3>>],
    [json |-> Json(0, 3, Kernel), sizes |-> <<3>>], [json |-> [f \in {"files"} |-> Kernel], sizes |-> <<3>>],
    [json |-> [f \in {"page_size"} |-> 4], sizes |-> <<3>>]>>
(* An image without files, and directories to be packed.                    *)
BootEmpty(v) ==
  <<v>> \o [k \in DOMAIN Packs |->
    [v EXCEPT !.sound = FALSE, !.dir.cfg = Packs[k].json,
              !.dir.files = [name \in {abootimg_files[i] : i \in DOMAIN Packs[k].sizes} |->
                               FileUnits(9, Packs[k].sizes[CHOOSE i \in 1 .. 5 : abootimg_files[i] = name])]]]
(* An image that was cut has the id of what the buffer of dd then has.      *)
BootVariants(v) ==
  <<[v EXCEPT !.image.head.magic = FALSE], [v EXCEPT !.image.head.page_size = 3], [v EXCEPT !.image.head.header_version = 3],
    [v EXCEPT !.image.head.id = <<>>], [v EXCEPT !.locked = {"ramdisk.bin"}], [v EXCEPT !.locked = {"abootimg.json"}],
    [v EXCEPT !.dir.files = [f \in {"dtb.bin"} |-> <<5>>]]>>
  \o [i \in 1 .. 2 |-> [v EXCEPT !.image.units = SubSeq(@, 1, 9), !.content = NoFiles,
       !.image.head.id = Digested(<<<<11, 12, 13, 3, 21, 13, 13, 13, 13, 13, 6, 0>>, <<11, 12, 13, 3, 21, 99, 99, 99, 21, 99, 6, 0>>>>[i])]]
Boots == <<[v |-> 0, page |-> 4, sizes |-> <<3, 6, 0, 0, 0>>], [v |-> 1, page |-> 2, sizes |-> <<4, 0, 1, 3, 0>>],
           [v |-> 2, page |-> 4, sizes |-> <<5, 4, 2, 0, 3>>], [v |-> 0, page |-> 2, sizes |-> <<2, 2, 2, 0, 0>>]>>
BootVolumes ==
  [i \in DOMAIN Boots |-> BootOf(Boots[i].v, Boots[i].page, Boots[i].sizes)]
  \o <<[BootOf(2, 2, <<1, 1, 1, 1, 1>>) EXCEPT !.image.head.name = <<1, 2, 3, 4>>]>>
  \o BootEmpty([BootOf(0, 4, <<0, 0, 0, 0, 0>>) EXCEPT !.image.units = <<0>>])
  \o BootVariants(UnsoundTree(BootOf(0, 4, <<3, 6, 0, 0, 0>>)))

-----------------------------------------------------------------------------
MCVolumes == LET volumes == FsVolumes \o FdtVolumes \o DtimgVolumes \o BootVolumes IN volumes
MCCommands ==
  FsCommands
  @@ [fs \in {"fdt"} |->
        {C(name, path) : name \in {"dts", "dtsv"}, path \in {<<>>, <<"soc", "uart">>, <<"none">>}} \cup {C("fit", <<>>), C("fitsize", <<>>)}]
  @@ [fs \in {"dtimg"} |-> {C(name, <<>>) : name \in {"dtlist", "repack", "pack"}}]
  @@ [fs \in {"bootimg"} |-> {C(name, <<>>) : name \in {"repack", "pack"}}]
MCExterns == 200 .. 209
MCOffsets == [s \in {"0", "4", "8", "12", "2"} |-> CASE s = "0" -> 0 [] s = "4" -> 4 [] s = "8" -> 8 [] s = "12" -> 12 [] OTHER -> 2]
MCReferences ==
  [name \in {"clocks", "cs-gpios", "pinctrl-0", "vcc-supply", "allwinner,sram", "interrupt-parent", "trip"} |->
     [cells |-> CASE name = "clocks" -> "#clock-cells" [] name = "cs-gpios" -> "#gpio-cells" [] OTHER -> "",
      fix |-> IF name = "allwinner,sram" THEN 1 ELSE 0]]
MCFragments == {"fragment@0", "fragment@1"}
MCNumberText == [n \in 0 .. 255 |-> ToString(n)]
MCNumberOf == [w \in {ToString(n) : n \in 0 .. 20 \cup {44, 300, 2048}} |-> CHOOSE n \in 0 .. 20 \cup {44, 300, 2048} : ToString(n) = w]
MCBoardNames == <<"board1.dtbo", "board2.dtbo", "board3.dtbo", "board4.dtbo">>
MCPageSizes == {2, 4}
MCStale == {13, 99}
=============================================================================
