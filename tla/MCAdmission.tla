---------------------------- MODULE MCAdmission ----------------------------
(* Constants of Admission that a .cfg cannot write.                        *)
EXTENDS Admission

\* One host in two spellings; a declaration that names it twice.
Lower        == [e \in {"h", "H"} |-> "h"]
Written      == {<<"h">>, <<"H">>, <<"h", "h">>}
Wrong(of)    == CHOOSE i \in DOMAIN Places : Places[i] = Place(of, FALSE)
SomeFaults   == {{[at |-> Wrong("memory"), unknown |-> TRUE],
                  [at |-> Wrong("package"), unknown |-> FALSE]}}
Interchangeable == Permutations(Copies)
=============================================================================
