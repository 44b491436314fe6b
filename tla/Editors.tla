-------------------------------- MODULE Editors --------------------------------
(***************************************************************************)
(* The editors that take an image apart, at work on one image: the readers *)
(* of fs/, and the editors of files in files.  What the latter owe is said *)
(* here, from what a volume says was put into it: the text of a tree       *)
(* (source), the files of a FIT or boot image (content), and the table a   *)
(* configuration asks for (want).                                          *)
(***************************************************************************)
EXTENDS FileSystems, FdtList, Dtimg, BootImg

Init == FsInit(0 .. 999) /\ ContainersInit

(* The size of a journal block is in the first one, and that of an entry   *)
(* of a directory in the entry; while that is 0 the scan of the journal,   *)
(* or the directory, stays where it is.                                    *)
allVars == <<vars, containerVars>>
CanStep == pc # "done" /\ ~Ext2JournalSpins /\ ~Ext2DirentSpins
Stays == ~CanStep /\ UNCHANGED allVars
Next ==
  \/ FsNext /\ UNCHANGED containerVars
  \/ FdtNext \/ DtimgNext \/ BootImgNext
  \/ Stays

(* Weak fairness of Next, with what enables a step written out: the tool   *)
(* goes on while it can.  That some step is possible then is checked as    *)
(* the absence of deadlocks.                                               *)
Spec == Init /\ [][Next]_allVars /\ (<>[]CanStep => []<><<Next>>_allVars)

(* The state of an editor: what is walked, printed, chosen and copied, the *)
(* directory and the image (print_dirent, fdt_list, dtimg_pack).           *)
TypeOK == FsTypeOK /\ ContainersTypeOK

-----------------------------------------------------------------------------
(* A tree compiled with its symbols is shown as the text it was compiled   *)
(* from, every reference with the label it had there.  With -v every tree  *)
(* is shown as it is: each node and property in order, with its value, if  *)
(* that has no more cells than are printed and none that is printed as a   *)
(* negative number (fdt_list).                                             *)
Printable(data) == Len(data.c) <= MaxCells /\ \A i \in DOMAIN data.c : data.c[i] < Word \div 2
TagOf(row) ==
  IF row.is # "prop" THEN [tag |-> row.is, name |-> row.name, val |-> NoValue]
  ELSE [tag |-> row.is, name |-> row.name,
        val |-> Value(IF row.text.k = "flag" THEN "none" ELSE row.text.k, row.text.s,
                      [i \in DOMAIN row.text.c |-> row.text.c[i].n])]
TreeExact ==
  LET d == vol.trees[packed.units[1]]
      tags == SelectSeq(d.tags, LAMBDA t : t.tag \in {"begin", "prop", "end"})
      rows == SelectSeq(out, LAMBDA r : r.is \in {"begin", "prop", "end"})
  IN vol.fs = "fdt" =>
       /\ Ended("dts") /\ cmd.arg = <<>> /\ vol.sound /\ ~vol.forced => ret = 0 /\ out = vol.source
       /\ Succeeded("dtsv") /\ cmd.arg = <<>> =>
            /\ Len(rows) = Len(tags)
            /\ \A i \in DOMAIN tags : Printable(tags[i].val) => TagOf(rows[i]) = tags[i]

(* A FIT image that is unpacked to an empty directory gives each file that *)
(* was put into it, and the text it was made from; its size is where the   *)
(* last file ends.  A table of device trees is the same after it is        *)
(* unpacked and packed again, and what pack makes is the table that the    *)
(* configuration asks for: a path gives the value it leads to, but a path  *)
(* with a name right before its ':' gives 0.  A boot image gives every     *)
(* file of it, and is the same after it is packed again but for what pack  *)
(* does not load; what pack makes is always accepted again                 *)
(* (fit_unpack, dtimg_unpack, dtimg_pack, abootimg_unpack, abootimg_pack). *)
Reloaded(head) ==
  [head EXCEPT !.recovery_dtbo_offset = 0, !.header_size = 0, !.dtb_addr = 0,
               !.name = SubSeq(@, 1, Lesser(Len(@), NameUnits - 1))]
RepackExact ==
  /\ Ended("fit") /\ vol.forced /\ vol.sound =>
       ret = 0 /\ dir.files = vol.content /\ dir.cfg = vol.source
  /\ Ended("fitsize") /\ vol.forced /\ vol.sound => out[1].text.c[1].n = Len(vol.image.units)
  /\ vol.fs = "dtimg" =>
       /\ Ended("repack") /\ vol.sound => ret = 0 /\ packed = vol.image
       /\ Ended("pack") /\ vol.sound => ret = 0 /\ packed = vol.want
  /\ vol.fs = "bootimg" =>
       /\ Ended("repack") /\ vol.sound => ret = 0
       /\ Succeeded("repack") =>
            /\ \A name \in DOMAIN vol.content : dir.files[name] = vol.content[name]
            /\ packed = [vol.image EXCEPT !.head = Reloaded(@)]
       /\ Succeeded("repack") \/ Succeeded("pack") =>
            \A stale \in Stale : abootimg_detect(packed.head, packed.units, stale)

(* Every command ends, except the listing of a journal whose first block   *)
(* cannot be read, and of a directory in a block of zeros.                 *)
Ends == <>(pc = "done" \/ Ext2JournalSpins \/ Ext2DirentSpins)
=============================================================================
