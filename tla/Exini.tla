--------------------------------- MODULE Exini ---------------------------------
(***************************************************************************)
(* exini.c with the quirk of dtboimg.cfg: the lines of a configuration     *)
(* become sections, each with a name and properties.  The first section,   *)
(* of the global options, is there before any line.                        *)
(*                                                                         *)
(* A line is a sequence of tokens: a character that exini.c looks for, or  *)
(* a word between two of them.                                             *)
(***************************************************************************)
EXTENDS Integers, SequencesExt

CONSTANTS NumberOf     \* the words that strtoul takes as a whole, and their numbers

EXINI_ERR_NOT_DEFINED == 1
EXINI_ERR_BAD_TYPE == 2
SpaceChar == " "

string_count_char(s, c) == Len(SelectSeq(s, LAMBDA t : t = c))
string_skip_head_space(s) ==
  LET words == {i \in DOMAIN s : s[i] # SpaceChar}
  IN IF words = {} THEN <<>> ELSE SubSeq(s, CHOOSE i \in words : \A j \in words : i <= j, Len(s))
string_remove_eol_space(s) == Reverse(string_skip_head_space(Reverse(s)))

(* A comment is cut at the last '#', unless there is a quote after the     *)
(* first character.                                                        *)
remove_eol_comment(start) ==
  LET s == string_remove_eol_space(start)
      marks == {i \in DOMAIN s : s[i] = "#"}
  IN IF marks = {} \/ "\"" \in {s[i] : i \in DOMAIN s \ {1}} THEN s
     ELSE SubSeq(s, 1, (CHOOSE i \in marks : \A j \in marks : j <= i) - 1)

NoValueOf == [type |-> "null", n |-> 0, text |-> <<>>]
exini_default_kv_handler(value) ==
  IF value = <<>> THEN NoValueOf
  ELSE IF Head(value) = "\"" /\ Last(value) = "\"" THEN [type |-> "string", n |-> 0, text |-> Front(Tail(value))]
  ELSE IF Len(value) = 1 /\ value[1] \in DOMAIN NumberOf
    THEN [type |-> "ulong", n |-> NumberOf[value[1]], text |-> <<>>]
  ELSE [type |-> "unknown", n |-> 0, text |-> value]

exini_alloc_section(ini, name) == [ini EXCEPT !.sections = Append(@, [name |-> name, props |-> <<>>])]
exini_add_property(ini, key, value) ==
  [ini EXCEPT !.sections[Len(ini.sections)].props = Append(@, [name |-> key, value |-> value])]

exini_load_property(ini, s) ==
  LET equal == CHOOSE i \in DOMAIN s : s[i] = "="
      key == string_remove_eol_space(string_skip_head_space(SubSeq(s, 1, equal - 1)))
      value == string_remove_eol_space(string_skip_head_space(SubSeq(s, equal + 1, Len(s))))
  IN IF \/ string_count_char(s, "=") # 1 \/ string_count_char(key, SpaceChar) > 0
        \/ value # <<>> /\ Head(value) # "\"" /\ string_count_char(value, SpaceChar) > 0
       THEN [ini EXCEPT !.ok = FALSE]
       ELSE exini_add_property(ini, key, exini_default_kv_handler(value))

(* A line without '=' begins a section, and so does [name].                *)
exini_load_line(ini, line) ==
  LET s == remove_eol_comment(string_skip_head_space(line))
  IN IF ~ini.ok \/ s = <<>> THEN ini
     ELSE IF Head(s) \in {";", "#"} THEN ini
     ELSE IF string_count_char(s, "=") = 0 THEN exini_alloc_section(ini, s)
     ELSE IF Head(s) = "[" /\ Last(s) = "]" THEN exini_alloc_section(ini, Front(Tail(s)))
     ELSE exini_load_property(ini, s)
GlobalOption == <<"__global_option">>
exini_load(lines) ==
  FoldLeft(exini_load_line, [ok |-> TRUE, sections |-> <<[name |-> GlobalOption, props |-> <<>>]>>], lines)

exini_find_section_property(section, name) ==
  SelectSeq(section.props, LAMBDA p : p.name = <<name>>)
exini_section_read_ulong(section, name, def) ==
  LET Read(found) == IF found = <<>> THEN [n |-> def, err |-> EXINI_ERR_NOT_DEFINED]
                     ELSE IF found[1].value.type = "ulong" THEN [n |-> found[1].value.n, err |-> 0]
                     ELSE [n |-> def, err |-> EXINI_ERR_BAD_TYPE]
  IN Read(exini_find_section_property(section, name))
exini_section_read_string(section, name) ==
  LET Read(found) == IF found = <<>> THEN [text |-> <<>>, err |-> EXINI_ERR_NOT_DEFINED]
                     ELSE IF found[1].value.type \notin {"string", "unknown"} THEN [text |-> <<>>, err |-> EXINI_ERR_NOT_DEFINED]
                     ELSE [text |-> found[1].value.text, err |-> 0]
  IN Read(exini_find_section_property(section, name))
=============================================================================
