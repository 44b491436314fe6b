--------------------------------- MODULE Main ---------------------------------
(***************************************************************************)
(* main.c: one command after another, each a process of its own: its       *)
(* options, the search or the choice of an editor, the action, and the     *)
(* exit of every editor.  misc.c: an editor of a plugin uses another one,  *)
(* of which only is modelled that it is looked up in the shared memory.    *)
(* gd.c: the shared memory object of a process, named after its number.    *)
(*                                                                         *)
(* What lasts between commands is the directory that unpack fills, with    *)
(* its marker file .imgeditor, and a shared memory object that a process   *)
(* has left.  What an editor's functions answer is not modelled, but that  *)
(* an editor recognises an image or not.                                   *)
(***************************************************************************)
EXTENDS ImageSearch

CONSTANTS Features,   \* of each editor, the functions and flags it has
          Sessions    \* [hits, auto, forced, requests, commands]: an image, the editors
                      \* that recognise it by themselves and with --type, and
                      \* how many commands of which kinds are run

NOBODY  == 0                \* no editor, no type, no marker
UNKNOWN == NEditors + 1     \* a type that no editor has

(* Option strings: what is done, --type, --offset, and whether the image   *)
(* and the output file are named.                                          *)
Request(do, type, at, out) == [do |-> do, type |-> type, at |-> at, out |-> out]
NoRequest == Request("", NOBODY, {}, FALSE)
Function == {"detect", "list", "unpack", "unpack2fd", "pack", "total_size", "main", "MULTI_BIN", "calls"}

ASSUME MainAssumption ==
  /\ Features \in [Editor -> SUBSET Function]
  /\ \A s \in Sessions : /\ s.hits \in HitSets /\ s.auto \subseteq s.forced /\ s.forced \subseteq Editor
                         /\ s.commands \in Nat
                         /\ \A r \in s.requests : r.type \in 0 .. UNKNOWN /\ r.at \subseteq Starts

VARIABLES session,  \* the image, and the commands it is given to
          commands, \* commands still to come
          request,  \* the command line
          opened,   \* a virtual file is open, as fd
          gd,       \* what the process found in its shared memory object
          left,     \* what a process has left in one
          editor,   \* the editor that was chosen
          ran,      \* history: the editor whose function ran, and its answer
          dump,     \* the directory: its marker; history: who unpacked into it last, whether
                    \* that failed, and who ever succeeded
          ret       \* the exit status

process == <<opened, gd, editor, ran, ret>>
mainVars == <<session, commands, request, process, left, dump>>
vars == <<searchVars, mainVars>>

Clean == [reused |-> FALSE, slot |-> {}, exported |-> FALSE]
Nothing == [there |-> FALSE, slot |-> {}, exported |-> FALSE]
Nobody == [by |-> NOBODY, ok |-> FALSE]
Stages == {"read", "scan", "detect", "searched", "parsed", "auto", "found", "act", "exit", "free", "ended"}

TypeOK ==
  /\ SearchTypeOK
  /\ pc \in Stages /\ session \in Sessions /\ commands \in 0 .. session.commands
  /\ request \in session.requests \cup {NoRequest}
  /\ opened \in BOOLEAN /\ editor \in 0 .. UNKNOWN
  /\ ran \in [by : 0 .. NEditors, ok : BOOLEAN]
  /\ dump \in [marker : 0 .. NEditors, by : 0 .. NEditors, failed : BOOLEAN, whole : SUBSET Editor]
  /\ left \in [there : BOOLEAN, slot : SUBSET Starts, exported : BOOLEAN]
  /\ gd \in [reused : BOOLEAN, slot : SUBSET Starts, exported : BOOLEAN]
  /\ ret \in {0, -1}

-----------------------------------------------------------------------------
Init ==
  /\ session \in Sessions /\ hits = session.hits /\ commands = session.commands
  /\ start = 0 /\ offset = 0 /\ loaded = 0 /\ cur = 1 /\ ready = FALSE /\ offset0 = FALSE
  /\ next = [e \in Editor |-> 0] /\ probe = NoProbe
  /\ imgs = NoReports /\ printed = NoReports /\ refused = {}
  /\ failures = 0
  /\ pc = "ended" /\ request = NoRequest /\ opened = FALSE /\ gd = Clean /\ left = Nothing
  /\ editor = NOBODY /\ ran = Nobody /\ ret = 0
  /\ dump = [marker |-> NOBODY, by |-> NOBODY, failed |-> FALSE, whole |-> {}]

(* A process begins: imgeditor_core_setup_gd opens the object of its       *)
(* number, or creates it zeroed; the editors are registered.  An object of *)
(* that number is used as it was left.                                     *)
Setup ==
  \/ gd' = Clean
  \/ left.there /\ gd' = [reused |-> TRUE, slot |-> left.slot, exported |-> left.exported]
Begin ==
  /\ pc = "ended" /\ commands > 0
  /\ commands' = commands - 1
  /\ request' \in session.requests
  /\ SearchFromStart(0)
  /\ Setup
  /\ opened' = FALSE /\ editor' = NOBODY /\ ran' = Nobody /\ ret' = -1
  /\ pc' = "parsed"
  /\ UNCHANGED <<session, hits, failures, left, dump>>

(* A return or exit from main without imgeditor_free_gd: the object stays, *)
(* with the slot of the open file and the exported editors.                *)
Leaves(status, slot, exported) ==
  /\ left' = [there |-> TRUE, slot |-> IF gd.slot # {} THEN gd.slot ELSE slot,
              exported |-> gd.exported \/ exported]
  /\ ret' = status /\ pc' = "ended"

(* The options.  One that gives an offset leaves 0 in ret.                 *)
Parsed == pc = "parsed"
RetOfOptions == IF request.at # {} THEN 0 ELSE -1
Offset == CHOOSE o \in request.at \cup {0} : request.at # {} => o \in request.at

OptionsEnd ==      \* --help, --version, a bad number, an unknown option
  /\ Parsed /\ request.do \in {"help", "bad"}
  /\ Leaves(IF request.do = "help" THEN 0 ELSE -1, {}, FALSE)
  /\ UNCHANGED <<file, walk, next, probe, imgs, printed, refused, failures,
                 session, commands, request, opened, gd, editor, ran, dump>>

ListPlugins ==     \* and no arguments at all
  /\ Parsed /\ request.do \in {"list-plugin", "noargs"}
  /\ ret' = IF request.do = "list-plugin" THEN 0 ELSE -1
  /\ pc' = "free"
  /\ UNCHANGED <<file, walk, next, probe, imgs, printed, refused, failures,
                 session, commands, request, opened, gd, editor, ran, left, dump>>

(* virtual_file_open: the file functions use the first slot with the       *)
(* number of the descriptor, which may be one that was left.               *)
Windows == {Offset} \cup gd.slot
OpenFails == failures < MaxFailures /\ failures' = failures + 1

Search ==
  /\ Parsed /\ request.do = "search"
  /\ \/ /\ (\E o \in Windows : SearchFromStart(o)) /\ pc' = "read" /\ ret' = RetOfOptions
        /\ UNCHANGED failures
     \/ OpenFails /\ pc' = "exit" /\ ret' = -1
        /\ UNCHANGED <<start, walk, next, probe, imgs, printed, refused>>
  /\ UNCHANGED <<hits, session, commands, request, opened, gd, editor, ran, left, dump>>

SearchStep == SearchNext /\ UNCHANGED mainVars

SearchReturns ==
  /\ pc = "searched" /\ pc' = "exit"
  /\ ret' = IF \E r \in Report : printed[r] > 0 THEN 0 ELSE -1
  /\ UNCHANGED <<file, walk, next, probe, imgs, printed, refused, failures,
                 session, commands, request, opened, gd, editor, ran, left, dump>>

-----------------------------------------------------------------------------
(* Which editor.                                                           *)
searching == <<next, probe, imgs, printed, refused, offset, loaded, ready, offset0, hits>>
Has(e, f) == f \in Features[e]
Known == request.type \in Editor
EditorDetects(e, by) == Has(e, "detect") /\ HeaderSz[e] <= FileLen - start /\ e \in by

(* `imgeditor --type gpt -- xxx`: no image, the editor's own main.         *)
ChooseMain ==
  /\ Parsed /\ request.do \in {"main", "usage"}
  /\ \/ request.do = "main" /\ Known /\ editor' = request.type /\ pc' = "act"
        /\ ret' = RetOfOptions /\ UNCHANGED left
     \/ (request.do = "usage" \/ ~Known) /\ Leaves(-1, {}, TRUE) /\ UNCHANGED editor
  /\ UNCHANGED <<searching, start, cur, failures, session, commands, request, opened, gd, ran, dump>>

(* list, unpack and peek open the image; with a type, that editor has to   *)
(* detect it, without one each editor is asked in turn.                    *)
Image == request.do \in {"list", "unpack", "peek"}
OpenImage ==
  /\ Parsed /\ Image
  /\ \/ OpenFails /\ Leaves(-1, {}, TRUE) /\ UNCHANGED <<start, opened>>
     \/ /\ start' \in Windows /\ UNCHANGED failures
        /\ IF request.type = UNKNOWN
             THEN Leaves(-1, {Offset}, TRUE) /\ UNCHANGED opened
             ELSE pc' = "auto" /\ ret' = RetOfOptions /\ opened' = TRUE /\ UNCHANGED left
  /\ UNCHANGED <<searching, cur, session, commands, request, gd, editor, ran, dump>>

Refused(e) == IF Known THEN pc' = "exit" /\ UNCHANGED cur ELSE NextEditor /\ UNCHANGED pc
Asked(e) == pc = "auto" /\ IF Known THEN e = request.type ELSE cur = e
Accepts == IF Known THEN session.forced ELSE session.auto

DetectTried == \E e \in Editor :
  /\ Asked(e)
  /\ IF EditorDetects(e, Accepts) THEN editor' = e /\ pc' = "found" /\ UNCHANGED cur
                                  ELSE Refused(e) /\ UNCHANGED editor
  /\ UNCHANGED <<searching, start, failures, session, commands, request, opened, gd, ran, left, dump, ret>>

NobodyDetects ==
  /\ pc = "auto" /\ ~Known /\ cur = NEditors + 1
  /\ pc' = "exit"
  /\ UNCHANGED <<searching, start, cur, failures, mainVars>>

(* peek needs an output file and the size of the image.                    *)
PeekFits == request.out /\ Has(editor, "total_size")
Found ==
  /\ pc = "found"
  /\ \/ (request.do = "peek" => PeekFits) /\ pc' = "act"
     \/ request.do = "peek" /\ pc' = "exit"       \* or its size is not known
  /\ UNCHANGED <<searching, start, cur, failures, mainVars>>

(* pack: without a type, the editor that the marker of the directory       *)
(* names.  The output is opened and cleared.                               *)
PackType == IF request.type # NOBODY THEN request.type ELSE dump.marker
ChoosePack ==
  /\ Parsed /\ request.do = "pack"
  /\ \/ ~request.out /\ pc' = "exit" /\ ret' = RetOfOptions /\ UNCHANGED <<editor, opened, left, failures>>
     \/ request.out /\ PackType \notin Editor /\ Leaves(-1, {}, TRUE) /\ UNCHANGED <<editor, opened, failures>>
     \/ /\ request.out /\ PackType \in Editor
        /\ \/ OpenFails /\ Leaves(-1, {}, TRUE) /\ UNCHANGED <<editor, opened>>
           \/ /\ editor' = PackType /\ opened' = TRUE /\ pc' = "act" /\ ret' = RetOfOptions
              /\ UNCHANGED <<left, failures>>
  /\ UNCHANGED <<searching, start, cur, session, commands, request, gd, ran, dump>>

-----------------------------------------------------------------------------
(* The action.  An editor without the function leaves ret as it is.        *)
Acting(do) == pc = "act" /\ request.do = do
Skips == pc' = "exit" /\ UNCHANGED <<ran, ret, dump>>
Answers(ok) == pc' = "exit" /\ ran' = [by |-> editor, ok |-> ok] /\ ret' = IF ok THEN 0 ELSE -1
ActFrame == UNCHANGED <<searching, start, cur, failures, session, commands, request, opened, gd, editor, left>>

(* register_imgeditor: of unpack and unpack2fd one makes the other.        *)
HasUnpack(e) == Has(e, "unpack") \/ (Has(e, "unpack2fd") /\ ~Has(e, "MULTI_BIN"))

ActSimply ==       \* list, pack, main
  /\ pc = "act" /\ request.do \in {"list", "pack", "main"}
  /\ IF Has(editor, request.do) THEN (\E ok \in BOOLEAN : Answers(ok)) /\ UNCHANGED dump ELSE Skips
  /\ ActFrame

ActPeek ==         \* editor_peek does not look at what was copied
  /\ Acting("peek")
  /\ \E opens \in BOOLEAN : Answers(opens)
  /\ UNCHANGED dump
  /\ ActFrame

(* The marker is written after an unpack that succeeded; failing to write  *)
(* it is reported, but not in ret.                                         *)
MarkerAfterMutant(ok) == editor        \* mutant: written before unpacking
MarkerAfter(ok) == IF ok THEN editor ELSE dump.marker

ActUnpack ==
  /\ Acting("unpack")
  /\ IF ~HasUnpack(editor) \/ (~Has(editor, "MULTI_BIN") /\ ~request.out) THEN Skips
     ELSE \E ok \in BOOLEAN, marked \in BOOLEAN :
            /\ Answers(ok)
            /\ dump' = IF ~Has(editor, "MULTI_BIN") THEN dump
                       ELSE [marker |-> IF marked THEN MarkerAfter(ok) ELSE dump.marker,
                             by |-> editor, failed |-> ~(ok /\ marked),
                             whole |-> IF ok THEN dump.whole \cup {editor} ELSE dump.whole]
  /\ ActFrame

(* misc.c: the editor e of a plugin asks another to detect, or to unpack,  *)
(* while it works itself.  Those an earlier process exported to the object *)
(* are at no place that is still good.                                     *)
AtWork(e) == \/ pc = "act" /\ editor = e
             \/ Asked(e) /\ HeaderSz[e] <= FileLen - start
PluginDies == \E e \in Editor :
  /\ AtWork(e) /\ Has(e, "calls") /\ gd.exported
  /\ Leaves(-1, IF opened THEN {start} ELSE {}, TRUE)
  /\ UNCHANGED <<searching, start, cur, failures, session, commands, request, opened, gd, editor, ran, dump>>

-----------------------------------------------------------------------------
(* done: the image is closed and every editor's exit() runs.  free_gd: the *)
(* object is removed.                                                      *)
ExitEditors ==
  /\ pc = "exit" /\ pc' = "free"
  /\ opened' = FALSE
  /\ UNCHANGED <<searching, start, cur, failures, session, commands, request, gd, editor, ran, left, dump, ret>>

FreeGd ==
  /\ pc = "free" /\ pc' = "ended"
  /\ left' = IF gd.reused THEN Nothing ELSE left
  /\ UNCHANGED <<searching, start, cur, failures, session, commands, request, process, dump>>

Next ==
  \/ Begin \/ OptionsEnd \/ ListPlugins \/ Search \/ SearchStep \/ SearchReturns
  \/ ChooseMain \/ OpenImage \/ DetectTried \/ NobodyDetects \/ Found \/ ChoosePack
  \/ ActSimply \/ ActPeek \/ ActUnpack \/ PluginDies
  \/ ExitEditors \/ FreeGd

(* One thread runs a command until main returns; commands follow one       *)
(* another as long as there are any.                                       *)
Spec == Init /\ [][Next]_vars /\ WF_vars(Next)

-----------------------------------------------------------------------------
(* The editor a command is for: the type it is given, the marker of the    *)
(* directory, or the first that recognises the image.                      *)
Recognisers == {e \in session.auto : Has(e, "detect") /\ start + HeaderSz[e] <= FileLen}
Rightful(e) ==
  IF request.type # NOBODY THEN e = request.type
  ELSE IF request.do = "pack" THEN e = dump.marker
  ELSE e \in Recognisers /\ \A f \in Recognisers : e <= f

(* When a command ends, only the editor it is for has acted, on the window *)
(* asked for; the exit status is 0 only if that editor succeeded, or if    *)
(* --offset was given and nobody acted.  And after an unpack that went     *)
(* well, a pack without a type goes to the editor that unpacked, and never *)
(* to one that did not succeed (main).                                     *)
(* The window is another one only if a process of the same number left its *)
(* shared memory object with an image open.                                *)
CommandExact ==
  pc = "ended" =>
    /\ ran.by # NOBODY => Rightful(ran.by) /\ (ret = 0 <=> ran.ok)
    /\ ran.by # NOBODY /\ Image /\ gd.slot = {} => start = Offset
    /\ ran.by = NOBODY /\ ret = 0 => request.at # {} \/ request.do \in {"", "help", "list-plugin", "search"}
    /\ dump.by = NOBODY \/ dump.failed \/ dump.marker = dump.by
    /\ dump.marker \in dump.whole \cup {NOBODY}

(* Every command ends: the loops of the search although every window steps *)
(* back, and the walk over the editors.                                    *)
Terminates == []<>(pc = "ended")
=============================================================================
