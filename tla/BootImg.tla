-------------------------------- MODULE BootImg --------------------------------
(***************************************************************************)
(* android/android_bootimg.c: a header with the SHA1 of up to five files,  *)
(* each of which begins on a page.  unpack writes the files and the fields *)
(* of the header as abootimg.json; pack makes the image from them.         *)
(***************************************************************************)
EXTENDS Containers, Digest

CONSTANTS PageSizes,
          NameUnits,    \* size of the field name
          DdUnits,      \* dd reads so much at a time
          Stale         \* what may be in the buffer of dd before it reads

ASSUME BootImgAssumption == PageSizes \subseteq Nat \ {0} /\ NameUnits \in Nat \ {0} /\ DdUnits \in Nat \ {0}

\* mutant: a file that fills its last page gets another
aligned_lengthMutant(n, page_size) == ((n \div page_size) + 1) * page_size
aligned_length(n, page_size) == ((n + page_size - 1) \div page_size) * page_size

(* The files, in order, and the fields of the header that are saved, each  *)
(* with the version of the header that has it.                             *)
abootimg_files == <<"kernel.bin", "ramdisk.bin", "second.bin", "recovery_dtbo.bin", "dtb.bin">>
min_version == <<0, 0, 0, 1, 2>>
structure_andr_hdr ==
  [kernel_addr |-> 0, page_size |-> 0, header_version |-> 0, name |-> 0,
   recovery_dtbo_offset |-> 1, header_size |-> 1, dtb_addr |-> 2]
fix_andr_hdr_structure(version) == {f \in DOMAIN structure_andr_hdr : structure_andr_hdr[f] <= version}

ZeroHead ==
  [magic |-> FALSE, kernel_addr |-> 0, page_size |-> 0, header_version |-> 0, name |-> <<>>,
   recovery_dtbo_offset |-> 0, header_size |-> 0, dtb_addr |-> 0, size |-> <<0, 0, 0, 0, 0>>, id |-> <<>>]
andr_hdr_erase_from(head) ==
  LET kept == Lesser(3 + head.header_version, 5)
      keep == fix_andr_hdr_structure(head.header_version)
  IN [f \in DOMAIN head |->
        IF f = "size" THEN [i \in 1 .. 5 |-> IF i <= kept THEN head.size[i] ELSE 0]
        ELSE IF f \in DOMAIN structure_andr_hdr \ keep THEN 0 ELSE head[f]]

-----------------------------------------------------------------------------
(* What dd gives to the SHA1 while it reads: as many units as it asked     *)
(* for, of which those it did not get are from before.                     *)
abootimg_update_sha1sum(units, offset, size, c, stale) ==
  LET Asked(k) == Lesser(DdUnits, size - k * DdUnits)
      Got(k) == ReadUnits(units, offset + k * DdUnits, Asked(k))
      Buffer[k \in -1 .. size \div DdUnits] ==
        IF k < 0 THEN [i \in 1 .. DdUnits |-> stale]
        ELSE [i \in 1 .. DdUnits |-> IF i <= Len(Got(k)) THEN Got(k)[i] ELSE Buffer[k - 1][i]]
      reads == SelectSeq([k \in 1 .. (size + DdUnits - 1) \div DdUnits |-> k - 1], LAMBDA k : Got(k) # <<>>)
  IN FoldLeft(LAMBDA x, k : hash_context_update(x, SubSeq(Buffer[k], 1, Asked(k))), c, reads)

HashOfSize(c, size) == hash_context_update(c, <<size>>)
abootimg_hash(head, units, stale) ==
  LET File(x, i) ==
        [c |-> HashOfSize(abootimg_update_sha1sum(units, x.offset, head.size[i], x.c, stale), head.size[i]),
         offset |-> (x.offset + aligned_length(head.size[i], head.page_size)) % Word]
      all == FoldLeft(File, [c |-> hash_context_init, offset |-> head.page_size],
                      SubSeq(<<1, 2, 3, 4, 5>>, 1, 3 + head.header_version))
  IN [id |-> hash_context_finish(all.c), total_size |-> all.offset]
abootimg_detect(head, units, stale) ==
  /\ head.magic /\ head.header_version <= 2 /\ head.page_size \in PageSizes
  /\ abootimg_hash(head, units, stale).id = head.id

BootImgDetect ==
  /\ Begins("bootimg", {"repack"})
  /\ \E stale \in Stale :
       IF abootimg_detect(packed.head, packed.units, stale)
         THEN loaded' = [head |-> packed.head, offset |-> packed.head.page_size, files |-> <<>>] /\ Stage("unpack")
         ELSE Stops(-1) /\ UNCHANGED loaded
  /\ UNCHANGED <<readerVars, at, out, dir, packed>>

-----------------------------------------------------------------------------
(* unpack.                                                                 *)
Remaining(head) == at < 5 /\ min_version[at + 1] <= head.header_version
abootimg_unpack_save_file(name, units, size) ==
  IF Locked(name) THEN UNCHANGED dir
  ELSE dir' = [dir EXCEPT !.files = With(@, name, units)]

BootImgUnpackFile ==
  /\ In("bootimg", "unpack") /\ Remaining(loaded.head)
  /\ LET size == loaded.head.size[at + 1]
         name == abootimg_files[at + 1]
         units == ReadUnits(packed.units, loaded.offset, size)
     IN CASE size = 0 -> at' = at + 1 /\ UNCHANGED <<dir, loaded, pc, stage, ret>>
          [] size # 0 /\ (Locked(name) \/ Len(units) # size) ->
               abootimg_unpack_save_file(name, units, size) /\ Stops(-1) /\ UNCHANGED <<at, loaded>>
          [] OTHER ->
               /\ abootimg_unpack_save_file(name, units, size)
               /\ loaded' = [loaded EXCEPT !.files = Append(@, name),
                                           !.offset = @ + aligned_length(size, loaded.head.page_size)]
               /\ at' = at + 1 /\ UNCHANGED <<pc, stage, ret>>
  /\ UNCHANGED <<readerVars, out, packed>>

(* Whether the configuration could be written is not looked at.            *)
structure_save_json(head) ==
  [f \in fix_andr_hdr_structure(head.header_version) |-> head[f]]
BootImgUnpackEnd ==
  /\ In("bootimg", "unpack") /\ ~Remaining(loaded.head)
  /\ dir' = IF Locked("abootimg.json") THEN dir
            ELSE [dir EXCEPT !.cfg = [f \in {"files"} |-> loaded.files] @@ structure_save_json(loaded.head)]
  /\ Stage("pack")
  /\ UNCHANGED <<readerVars, at, out, loaded, packed>>

-----------------------------------------------------------------------------
(* pack.  The private data is empty when the fields are loaded: those of   *)
(* version 0 are.  A string loses the unit for which there is no room.     *)
structure_item_load_json_string(s, sz) == SubSeq(s, 1, Lesser(Len(s), sz - 1))
structure_load_json(cfg) ==
  [f \in DOMAIN ZeroHead |->
     IF f \notin fix_andr_hdr_structure(0) THEN ZeroHead[f]
     ELSE IF f = "name" THEN structure_item_load_json_string(cfg.name, NameUnits) ELSE cfg[f]]
json_string_array_search(files, name) == name \in Range(files)
Allowed(head, files) ==
  IF json_string_array_search(files, "recovery_dtbo.bin") THEN head.header_version >= 1
  ELSE json_string_array_search(files, "dtb.bin") => head.header_version >= 2

BootImgPack ==
  /\ Begins("bootimg", {"pack"}) \/ In("bootimg", "pack")
  /\ LET head == structure_load_json(dir.cfg)
     IN IF /\ ~Locked("abootimg.json") /\ "files" \in DOMAIN dir.cfg /\ fix_andr_hdr_structure(0) \subseteq DOMAIN dir.cfg
           /\ head.page_size \in PageSizes /\ head.header_version <= 2 /\ Allowed(head, dir.cfg.files)
          THEN /\ loaded' = [head |-> andr_hdr_erase_from(head), c |-> hash_context_init,
                             offset |-> head.page_size, padding |-> 0]
               /\ Stage("section")
          ELSE Stops(-1) /\ UNCHANGED loaded
  /\ packed' = NoImage /\ at' = 0
  /\ UNCHANGED <<readerVars, out, dir>>

BootImgPackFile ==
  /\ In("bootimg", "section") /\ Remaining(loaded.head)
  /\ LET name == abootimg_files[at + 1]
         units == dir.files[name]
         size == Len(units)
         room == aligned_length(size, loaded.head.page_size)
         Hashed(n) == [loaded EXCEPT !.head.size[at + 1] = n]
     IN CASE ~json_string_array_search(dir.cfg.files, name) ->
               /\ loaded' = [Hashed(0) EXCEPT !.c = HashOfSize(@, 0)]
               /\ at' = at + 1 /\ UNCHANGED <<packed, pc, stage, ret>>
          [] json_string_array_search(dir.cfg.files, name) /\ name \notin DOMAIN dir.files ->
               Stops(-1) /\ UNCHANGED <<at, loaded, packed>>
          [] OTHER ->
               /\ packed' = IF size = 0 THEN packed ELSE [packed EXCEPT !.units = WriteAt(@, loaded.offset, units, 0)]
               /\ loaded' = [Hashed(size) EXCEPT
                               !.c = HashOfSize(abootimg_update_sha1sum(units, 0, size, @, 0), size),
                               !.offset = @ + room, !.padding = room - size]
               /\ at' = at + 1 /\ UNCHANGED <<pc, stage, ret>>
  /\ UNCHANGED <<readerVars, out, dir>>

(* Padding is that of the last file that was copied, and then the header.  *)
BootImgPackEnd ==
  /\ In("bootimg", "section") /\ ~Remaining(loaded.head)
  /\ LET body == IF loaded.padding = 0 THEN packed.units ELSE WriteAt(packed.units, loaded.offset - 1, <<0>>, 0)
     IN packed' = [packed EXCEPT !.units = WriteAt(body, 0, <<0>>, 0),
                                 !.head = [loaded.head EXCEPT !.magic = TRUE, !.id = hash_context_finish(loaded.c)]]
  /\ Stops(0)
  /\ UNCHANGED <<readerVars, at, out, dir, loaded>>

BootImgNext ==
  BootImgDetect \/ BootImgUnpackFile \/ BootImgUnpackEnd \/ BootImgPack \/ BootImgPackFile \/ BootImgPackEnd
=============================================================================
