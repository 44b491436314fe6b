------------------------------- MODULE MCDisk -------------------------------
(* Disks of five sectors: sector 0 holds one of several mixtures of data,   *)
(* extended and empty entries, sectors 1 and 2 a table of a chain or none.  *)
EXTENDS Disk

N == EmptyEntry
D(s) == [sys_ind |-> "data", start |-> s, size |-> 1]
X(s) == [sys_ind |-> "extended", start |-> s, size |-> 3]
E == [sys_ind |-> "efi", start |-> 1, size |-> 4]
Sec(m, table) == [magic |-> m, parts |-> table]
NoTable == Sec("bad", EmptyTable)

Primaries == {<<D(0), X(1), N, N>>, <<D(0), D(1), X(2), N>>, <<X(1), D(0), N, N>>,
              <<D(0), N, D(3), D(4)>>, <<N, N, N, X(1)>>, <<D(0), N, N, N>>,
              <<E, N, N, N>>, <<E, X(1), N, D(2)>>, <<D(4), X(6), N, N>>,
              <<[D(0) EXCEPT !.size = 0], N, D(2), N>>}
Tables == {<<D(1), N, N, N>>, <<D(1), X(1), N, N>>, <<N, D(0), X(1), D(2)>>,
           <<D(1), X(0), N, N>>, <<N, X(0), N, N>>, <<D(1), D(2), N, X(3)>>,
           <<X(1), D(1), N, N>>, <<D(1), X(5), N, N>>, <<D(1), D(2), N, N>>}

Chained(m, p, t2, t3) ==
  <<Sec(m, p), t2, t3, NoTable, NoTable>>
MCDisks ==
  {Chained("good", p, s2, s3) :
     p \in Primaries,
     s2 \in {NoTable} \cup {Sec("good", t) : t \in Tables},
     s3 \in {NoTable} \cup {Sec("half", t) : t \in
                {<<D(1), N, N, N>>, <<D(1), X(0), N, N>>, <<N, X(0), N, N>>}}}
  \cup {Chained(m, <<D(0), X(1), N, N>>, NoTable, NoTable) : m \in {"half", "bad"}}

G(name, start, end) == [name |-> name, start |-> start, end |-> end]
(* The second and the third table have entries beyond Mod32 = 8 bytes.      *)
MCGptEntries == {<<G(101, 1, 2), G(102, 3, 3), G(0, 0, 0), G(103, 4, 4)>>,
                 <<G(104, 2, 5), G(105, 2, 3)>>,
                 <<G(106, 5, 6), G(107, 1, 8), G(108, 3, 4)>>}
=============================================================================
