-------------------------------- MODULE Uenv ---------------------------------
(***************************************************************************)
(* u-boot/uenv.c: packing a text into a u-boot environment (uenv_pack),    *)
(* finding the size of an environment (uenv_auto_detect_filesize) and      *)
(* listing it (uenv_list), one after the other, as                         *)
(* tests/uboot/env/test.sh does.                                           *)
(*                                                                         *)
(* The crc32 header and the part byte are one unit each, and so is every   *)
(* character.  In the text NL ends a line and ESC is the two characters    *)
(* "\n" of the escape.  In the image NUL is a zero byte and LF the byte    *)
(* that an escape stands for.  A checksum is abstracted to what it covers. *)
(***************************************************************************)
EXTENDS Files

CONSTANTS UENV_MINIMUM_SIZE, UENV_MAXIMUM_SIZE,
          better_sz,   \* the step between the sizes that are tried (128 KiB)
          LineMax,     \* characters fgets stores at once (1022)
          Title,       \* first lines of the text: numbers read, and their values
          Body,        \* the rest of the text
          OldSize,     \* lengths of the output file before it is packed
          Trailer      \* what follows the environment when it is looked at

ASSUME UenvAssumption ==
  /\ UENV_MINIMUM_SIZE \in Nat \ {0} /\ UENV_MAXIMUM_SIZE \in Nat /\ LineMax \in Nat \ {0}
  /\ better_sz \in Nat \ {0} /\ UENV_MAXIMUM_SIZE % better_sz = 0
  /\ OldSize \subseteq Nat /\ Trailer \subseteq Nat
  /\ Title \subseteq [n : Int, size : Nat, part : Int]
ASSUME BodyAssumption == \A b \in Body : b \in Seq({"a", "ESC", "NL"})

VARIABLES pc,            \* "title", "lines", "packed", "detect", "list" or "done"
          title, text,   \* the text: its first line, and what is left of the rest
          body,          \* history: the rest of the text
          total_length,  \* cached length of the output
          img, at,       \* the output file and its position
          crc,           \* what the checksum in the image covers
          ret,           \* result of uenv_pack
          sz,            \* size that uenv_auto_detect_filesize tries
          env_size,      \* p->env_size, or 0
          printed        \* what uenv_list prints after its first line

vars == <<pc, title, text, body, total_length, img, at, crc, ret, sz, env_size, printed>>

MAIN == 0
REDUND == 1
Part == {MAIN, REDUND}
PartByte(part) == IF part = MAIN THEN "NUL" ELSE "1"

TypeOK ==
  /\ pc \in {"title", "lines", "packed", "detect", "list", "done"}
  /\ title \in Title /\ text \in Seq({"a", "ESC", "NL"})
  /\ total_length \in Nat /\ at \in Nat /\ sz \in 0 .. UENV_MAXIMUM_SIZE /\ env_size \in Nat /\ ret \in {0, -1}
  /\ img \in Seq({"crc", "NUL", "1", "a", "LF", "ff"})
  /\ printed \in Seq({"a", "ESC", "NL"})

(* main.c opens the output as a virtual file, which caches its length, and *)
(* truncates it only then.                                                 *)
Init ==
  /\ pc = "title"
  /\ title \in Title /\ body \in Body /\ text = body
  /\ total_length \in OldSize
  /\ img = <<>> /\ at = 0 /\ crc = <<>>
  /\ ret = 0 /\ sz = 0 /\ env_size = 0 /\ printed = <<>>

-----------------------------------------------------------------------------
(* uenv_pack                                                               *)
GoodTitle ==
  /\ title.n >= 1
  /\ title.size % 2 = 0
  /\ title.n = 2 => title.part \in Part
HasPart == title.n = 2 /\ title.part \in Part

PackTitleFails ==
  /\ pc = "title" /\ ~GoodTitle
  /\ ret' = -1 /\ pc' = "done"
  /\ UNCHANGED <<title, text, body, total_length, img, at, crc, sz, env_size, printed>>

PackTitle ==
  LET zeros == [i \in 1 .. title.size |-> "NUL"]
  IN /\ pc = "title" /\ GoodTitle
     /\ img' = IF HasPart THEN WriteAt(zeros, 1, <<PartByte(title.part)>>, "NUL") ELSE zeros
     /\ at' = IF HasPart THEN 2 ELSE 1
     /\ pc' = "lines"
     /\ UNCHANGED <<title, text, body, total_length, crc, ret, sz, env_size, printed>>

(* fgets: up to the end of the line, or as much as the buffer holds.       *)
EndOfLine == {i \in DOMAIN text : text[i] = "NL"}
Taken == LET most == IF Len(text) < LineMax THEN Len(text) ELSE LineMax
         IN IF \E i \in EndOfLine : i <= most
            THEN CHOOSE i \in EndOfLine : \A j \in EndOfLine : i <= j ELSE most
Buffer == SubSeq(text, 1, IF text[Taken] = "NL" THEN Taken - 1 ELSE Taken)
Unescaped == [i \in DOMAIN Buffer |-> IF Buffer[i] = "ESC" THEN "LF" ELSE Buffer[i]]

WithEndMutant(s) == s     \* mutant: strlen(buffer) instead of strlen(buffer) + 1
WithEnd(s) == Append(s, "NUL")

PackLine ==
  /\ pc = "lines" /\ text # <<>>
  /\ img' = WriteAt(img, at, WithEnd(Unescaped), "NUL")
  /\ at' = at + Len(WithEnd(Unescaped))
  /\ text' = SubSeq(text, Taken + 1, Len(text))
  /\ UNCHANGED <<pc, title, body, total_length, crc, ret, sz, env_size, printed>>

(* filelength is the cached length.                                        *)
Overflow == total_length > title.size

PackOverflows ==
  /\ pc = "lines" /\ text = <<>> /\ Overflow
  /\ ret' = -1 /\ pc' = "done"
  /\ UNCHANGED <<title, text, body, total_length, img, at, crc, sz, env_size, printed>>

PackEnds ==
  /\ pc = "lines" /\ text = <<>> /\ ~Overflow
  /\ crc' = SubSeq(img, 2, title.size)
  /\ img' = WriteAt(img, 0, <<"crc">>, "NUL")
  /\ ret' = 0 /\ pc' = "packed"
  /\ UNCHANGED <<title, text, body, total_length, at, sz, env_size, printed>>

-----------------------------------------------------------------------------
(* uenv_detect, of a file that has the image at the start of its window    *)
(* and something else after it.                                            *)
aligned_length(len) == ((len + better_sz - 1) \div better_sz) * better_sz
FirstSizeMutant(len) == aligned_length(len)     \* mutant: no maximum
FirstSize(len) == IF len >= UENV_MAXIMUM_SIZE THEN UENV_MAXIMUM_SIZE ELSE aligned_length(len)

DetectBegins == \E n \in Trailer :
  /\ pc = "packed"
  /\ img' = img \o [i \in 1 .. n |-> "ff"]
  /\ sz' = FirstSize(Len(img'))
  /\ pc' = "detect"
  /\ UNCHANGED <<title, text, body, total_length, at, crc, ret, env_size, printed>>

TryMutant == sz >= 0         \* mutant: the smallest size is not a bound
Try == sz > UENV_MINIMUM_SIZE
(* Past the end of the file dd gives its callback an old buffer: garbage.  *)
CrcMatches == Len(img) >= sz /\ crc = SubSeq(img, 2, sz)

SmallerMutant == sz \div 2         \* mutant: always halves
Smaller == IF sz > better_sz THEN sz - better_sz ELSE sz \div 2

DetectNext ==
  /\ pc = "detect" /\ Try /\ ~CrcMatches
  /\ sz' = Smaller
  /\ UNCHANGED <<pc, title, text, body, total_length, img, at, crc, ret, env_size, printed>>

DetectFinds ==
  /\ pc = "detect" /\ Try /\ CrcMatches
  /\ env_size' = sz
  /\ pc' = "list"
  /\ UNCHANGED <<title, text, body, total_length, img, at, crc, ret, sz, printed>>

DetectFails ==
  /\ pc = "detect" /\ ~Try
  /\ pc' = "done"
  /\ UNCHANGED <<title, text, body, total_length, img, at, crc, ret, sz, env_size, printed>>

-----------------------------------------------------------------------------
(* uenv_list: the first line tells the part if the first byte can be one;  *)
(* the strings follow, to the first empty one.                             *)
ListedPart == CASE img[2] = "NUL" -> MAIN [] img[2] = "1" -> REDUND [] OTHER -> -1
FirstString == IF ListedPart \in Part THEN 2 ELSE 1

Strings[s \in 1 .. env_size] ==
  LET c == img[s + 1]
  IN IF s >= env_size - 1 THEN <<>>
     ELSE IF c = "LF" THEN <<"ESC", "NL">> \o Strings[s + 1]
     ELSE IF c # "NUL" THEN <<c>> \o Strings[s + 1]
     ELSE IF img[s + 2] = "NUL" THEN <<"NL">> ELSE <<"NL">> \o Strings[s + 1]

List ==
  /\ pc = "list"
  /\ printed' = Strings[FirstString]
  /\ pc' = "done"
  /\ UNCHANGED <<title, text, body, total_length, img, at, crc, ret, sz, env_size>>

Next == \/ PackTitle \/ PackTitleFails \/ PackLine \/ PackOverflows \/ PackEnds
        \/ DetectBegins \/ DetectNext \/ DetectFinds \/ DetectFails \/ List

(* One thread runs the operations to their end.                            *)
Spec == Init /\ [][Next]_vars /\ WF_vars(Next)

-----------------------------------------------------------------------------
Listed == pc = "done" /\ env_size > 0
Fits == at <= title.size

(* A text of plain lines: none is empty, has an escape or is too long.     *)
Ends == {0} \cup {i \in DOMAIN body : body[i] = "NL"} \cup {Len(body) + 1}
Plain ==
  /\ body # <<>> /\ body[1] # "NL"
  /\ \A i \in DOMAIN body : body[i] # "ESC"
  /\ \A i \in 1 .. Len(body) - 1 : ~(body[i] = "NL" /\ body[i + 1] = "NL")
  /\ \A i \in 1 .. Len(body) - LineMax + 1 : \E j \in i .. i + LineMax - 1 : body[j] = "NL"
WithLastEnd(s) == IF s # <<>> /\ s[Len(s)] = "NL" THEN s ELSE Append(s, "NL")

(* Listing an environment prints the text it was packed from               *)
(* (tests/uboot/env/test.sh:42), whatever follows the environment in the   *)
(* file, whether or not it has a part, and also when it is full.           *)
ListReproduces ==
  Listed /\ Plain /\ Fits =>
    /\ env_size = title.size
    /\ ListedPart = IF HasPart THEN title.part ELSE -1
    /\ WithLastEnd(printed) = WithLastEnd(body)

(* The size of an environment is found again exactly if it is one of those *)
(* that are tried, and no other size is ever taken for it, whatever comes  *)
(* after the environment.                                                  *)
Halved[k \in 0 .. better_sz] == IF k = 0 THEN better_sz ELSE Halved[k - 1] \div 2
Detectable(n) ==
  /\ UENV_MINIMUM_SIZE < n /\ n <= UENV_MAXIMUM_SIZE
  /\ n % better_sz = 0 \/ \E k \in 1 .. better_sz : n = Halved[k]
DetectIsExact ==
  /\ env_size # 0 => env_size = title.size
  /\ pc = "done" /\ ret = 0 /\ Detectable(title.size) => env_size = title.size

(* Every way through packing, detecting and listing comes to its end.      *)
Ended == <>(pc = "done")

(* uenv_pack answers "Error: env size overflow" (uenv.c:204) to a text     *)
(* that does not fit in the environment: one it packs does.                *)
OverflowReported == pc = "packed" => Fits
=============================================================================
