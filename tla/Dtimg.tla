--------------------------------- MODULE Dtimg ---------------------------------
(***************************************************************************)
(* android/dtimg.c: a table of device trees.  unpack writes each tree to a *)
(* file, and what a tree does not say of its entry to dtboimg.cfg; pack    *)
(* makes the table from such a directory.  repack is the two after one     *)
(* another, as a user would call them.                                     *)
(***************************************************************************)
EXTENDS Fdt, Exini

CONSTANTS DtHeaderUnits, DtEntryUnits,      \* sizes of a header and an entry
          DT_TABLE_DEFAULT_PAGE_SIZE,
          NumberText,                       \* of a number, the word that is printed
          BoardNames                        \* board1.dtbo, board2.dtbo, ...

ASSUME DtimgAssumption == DtHeaderUnits \in Nat \ {0} /\ DtEntryUnits \in Nat \ {0}

Customs == <<"custom0", "custom1", "custom2", "custom3">>
EntryKeys == <<"id", "rev">> \o Customs
ZeroEntry == [size |-> 0, offset |-> 0, v |-> [key \in Range(EntryKeys) |-> 0]]

DtHead(count, total_size) ==
  [magic |-> TRUE, total_size |-> total_size, header_size |-> DtHeaderUnits, dt_entry_size |-> DtEntryUnits,
   dt_entry_count |-> count, dt_entries_offset |-> DtHeaderUnits, page_size |-> DT_TABLE_DEFAULT_PAGE_SIZE,
   version |-> 0]
dtimg_check_sections(h) ==
  /\ [h EXCEPT !.total_size = 0, !.dt_entry_count = 0, !.dt_entries_offset = DtHeaderUnits] = DtHead(0, 0)
  /\ h.dt_entries_offset >= DtHeaderUnits

(* Entries beyond the end of the file are zero.                            *)
ReadEntries(count) == [i \in 1 .. count |-> IF i <= Len(packed.entries) THEN packed.entries[i] ELSE ZeroEntry]

-----------------------------------------------------------------------------
(* unpack.                                                                 *)

(* No default if an entry has 0; else that of the last entry for custom0,  *)
(* and none for the others, of which only the place in the array is        *)
(* compared (the loop that should count never runs).                       *)
dtimg_get_default_custom(entries, which) ==
  IF entries = <<>> \/ \E i \in DOMAIN entries : entries[i].v[which] = 0 \/ which # "custom0" THEN 0
  ELSE Last(entries).v[which]

dtimg_dtbo_get_global(f, name) ==
  LET node == device_node_find_byname(f.tree, f.root, name)
  IN IF node # NULL /\ IsU32(f.tree[node].data) THEN f.tree[node].data.c[1] ELSE 0

Option(key, value) == <<SpaceChar, SpaceChar, key, "=">> \o value
GlobalLines(entries) ==
  LET customs == SelectSeq(Customs, LAMBDA key : dtimg_get_default_custom(entries, key) # 0)
  IN <<<<"#", SpaceChar, "global options">>, Option("id", <<"/", ":", "board_id">>), Option("rev", <<"/", ":", "board_rev">>)>>
     \o [i \in DOMAIN customs |-> Option(customs[i], <<NumberText[dtimg_get_default_custom(entries, customs[i])]>>)]
     \o <<<<>>, <<"#", SpaceChar, "entries">>>>
SectionLines(i, e, f, entries) ==
  LET Default(key) == CASE key = "id" -> dtimg_dtbo_get_global(f, "board_id")
                        [] key = "rev" -> dtimg_dtbo_get_global(f, "board_rev")
                        [] OTHER -> dtimg_get_default_custom(entries, key)
      differing == SelectSeq(EntryKeys, LAMBDA key : e.v[key] # Default(key))
  IN <<<<BoardNames[i]>>>> \o [k \in DOMAIN differing |-> Option(differing[k], <<NumberText[e.v[differing[k]]]>>)]

DtimgDetect ==
  /\ Begins("dtimg", {"dtlist", "repack"})
  /\ IF dtimg_check_sections(packed.head)
       THEN loaded' = ReadEntries(packed.head.dt_entry_count) /\ Stage("start")
       ELSE Stops(-1) /\ UNCHANGED loaded
  /\ UNCHANGED <<readerVars, at, out, dir, packed>>

DtimgList ==
  /\ In("dtimg", "start") /\ cmd.name = "dtlist"
  /\ out' = loaded /\ Stops(0)
  /\ UNCHANGED <<readerVars, at, dir, loaded, packed>>

DtimgUnpack ==
  /\ In("dtimg", "start") /\ cmd.name = "repack"
  /\ IF Locked("dtboimg.cfg") THEN Stops(-1) /\ UNCHANGED dir
     ELSE dir' = [dir EXCEPT !.cfg = GlobalLines(loaded)] /\ Stage("entry")
  /\ UNCHANGED <<readerVars, at, out, loaded, packed>>

(* A tree that cannot be read ends the unpacking, its section unwritten; a *)
(* file that cannot be opened ends it after the section is written.        *)
DtimgUnpackEntry ==
  /\ In("dtimg", "entry") /\ at < Len(loaded)
  /\ LET e == loaded[at + 1]
         name == BoardNames[at + 1]
         Written(lines) ==
           IF Locked(name) THEN Stops(-1) /\ dir' = [dir EXCEPT !.cfg = @ \o lines] /\ UNCHANGED at
           ELSE /\ dir' = [cfg |-> dir.cfg \o lines,
                           files |-> With(dir.files, name, ReadUnits(packed.units, e.offset, e.size))]
                /\ at' = at + 1 /\ UNCHANGED <<pc, stage, ret>>
         From(f) == IF ~f.ok THEN Stops(-1) /\ UNCHANGED <<at, dir>> ELSE Written(SectionLines(at + 1, e, f, loaded))
     IN From(fdt_detect(packed.units, e.offset))
  /\ UNCHANGED <<readerVars, out, loaded, packed>>

-----------------------------------------------------------------------------
(* pack.                                                                   *)

(* A number of the section, or else of the global options.                 *)
dtimg_entry_read_ulong(global_option, section, key) ==
  LET own == exini_section_read_ulong(section, key, 0)
  IN IF own.err = 0 THEN own ELSE exini_section_read_ulong(global_option, key, own.n)

(* A path of the section, or else of the global options: the value of the  *)
(* tree there, if it has one.  Every ':' is taken out of the path, and the *)
(* names before and after it become one name.  A path is shorter than its  *)
(* buffer.                                                                 *)
PathTo(text) ==
  LET Add(path, t) == CASE t = "/" -> Append(path, "")
                        [] t = ":" -> path
                        [] OTHER   -> [path EXCEPT ![Len(path)] = @ \o t]
  IN SelectSeq(FoldLeft(Add, <<"">>, text), LAMBDA name : name # "")
dtimg_init_entry_from_dt(f, global_option, section, key) ==
  LET own == exini_section_read_string(section, key)
      path == IF own.err = 0 THEN own ELSE exini_section_read_string(global_option, key)
      node == device_node_find_bypath(f.tree, f.root, PathTo(path.text))
  IN IF path.err # 0 \/ node = NULL THEN [ok |-> TRUE, n |-> 0]
     ELSE IF ~IsU32(f.tree[node].data) THEN [ok |-> FALSE, n |-> 0]
     ELSE [ok |-> TRUE, n |-> f.tree[node].data.c[1]]

(* An entry as far as it could be filled.                                  *)
dtimg_init_entry(f, global_option, section, entry) ==
  LET Read(r, key) ==
        IF r.err # EXINI_ERR_BAD_TYPE THEN [ok |-> TRUE, n |-> r.n % Word]
        ELSE IF key \in Range(Customs) THEN [ok |-> FALSE, n |-> 0]
        ELSE dtimg_init_entry_from_dt(f, global_option, section, key)
      Number(key) == Read(dtimg_entry_read_ulong(global_option, section, key), key)
      Put(x, key, r) == IF x.ok /\ r.ok THEN [x EXCEPT !.e.v[key] = r.n] ELSE [x EXCEPT !.ok = FALSE]
      Fill(x, key) == Put(x, key, Number(key))
  IN FoldLeft(Fill, [ok |-> f.ok, e |-> entry], IF f.ok THEN EntryKeys ELSE <<>>)

NewTable(sections) ==
  [sections |-> sections, failed |-> FALSE,
   offset |-> DtHeaderUnits + DtEntryUnits * (Len(sections) - 1)]

(* The output is emptied before pack is asked (main.c).                    *)
DtimgPack ==
  /\ \/ Begins("dtimg", {"pack"})
     \/ In("dtimg", "entry") /\ at = Len(loaded)
  /\ LET ini == exini_load(dir.cfg)
     IN IF Locked("dtboimg.cfg") \/ ~ini.ok THEN Stops(-1) /\ packed' = NoImage /\ UNCHANGED <<at, loaded>>
        ELSE /\ loaded' = NewTable(ini.sections) /\ at' = 1 /\ Stage("section")
             /\ packed' = [NoImage EXCEPT !.entries = [i \in 1 .. Len(ini.sections) - 1 |-> ZeroEntry]]
  /\ UNCHANGED <<readerVars, out, dir>>

(* A section that fails leaves the entry as far as it is filled.           *)
Fails(entry) ==
  /\ loaded' = [loaded EXCEPT !.failed = TRUE]
  /\ packed' = [packed EXCEPT !.entries[at] = entry] /\ UNCHANGED at
Adds(init, units) ==
  IF ~init.ok THEN Fails(init.e)
  ELSE /\ packed' = [packed EXCEPT !.entries[at] = [init.e EXCEPT !.size = Len(units)],
                                   !.units = WriteAt(@, loaded.offset, units, 0)]
       /\ loaded' = [loaded EXCEPT !.offset = @ + Len(units)] /\ at' = at + 1
DtimgPackSection ==
  /\ In("dtimg", "section") /\ at < Len(loaded.sections) /\ ~loaded.failed
  /\ LET section == loaded.sections[at + 1]
         placed == [ZeroEntry EXCEPT !.offset = loaded.offset]
         found == Len(section.name) = 1 /\ section.name[1] \in DOMAIN dir.files
         units == dir.files[section.name[1]]
     IN CASE section.name = GlobalOption -> at' = at + 1 /\ UNCHANGED <<loaded, packed>>
          [] section.name # GlobalOption /\ ~found -> Fails(placed)
          [] OTHER -> Adds(dtimg_init_entry(fdt_detect(units, 0), loaded.sections[1], section, placed), units)
  /\ UNCHANGED <<readerVars, out, dir, pc, stage, ret>>

(* The header and the entries are written whether a section failed or not. *)
DtimgPackEnd ==
  /\ In("dtimg", "section") /\ (loaded.failed \/ at = Len(loaded.sections))
  /\ packed' = [packed EXCEPT !.head = DtHead(Len(packed.entries), loaded.offset),
                              !.units = WriteAt(@, 0, [i \in 1 .. DtHeaderUnits + DtEntryUnits * Len(packed.entries) |-> 0], 0)]
  /\ Stops(IF loaded.failed THEN -1 ELSE 0)
  /\ UNCHANGED <<readerVars, at, out, dir, loaded>>

DtimgNext ==
  \/ DtimgDetect \/ DtimgList \/ DtimgUnpack \/ DtimgUnpackEntry
  \/ DtimgPack \/ DtimgPackSection \/ DtimgPackEnd
=============================================================================
