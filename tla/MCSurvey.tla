------------------------------ MODULE MCSurvey ------------------------------
(* Two clients, two slots, two addresses, two rows of a table; commands    *)
(* mixed by what they share: the members row, its requests, the forms.     *)
EXTENDS Survey, TLC

CONSTANTS i, j, p, q
MCMix == {{"create", "review"}, {"create", "reset"}, {"review", "reset"},
          {"pending-rotation", "review"}, {"create", "set", "clear"},
          {"ics-seed", "ics-review", "reset"},
          {"idvtc-seed", "idvtc-with-members", "idvtc-review"}}
MCSymmetry == Permutations(Client) \cup Permutations(Address) \cup Permutations(Id)

\* History counts for what the properties ask of it only.
Asked(c) ==
  CASE c \in Creates -> Creates
    [] c = "review" -> MemberWriters
    [] c \in Seeds -> Seeds
    [] c = "ics-review" -> {"ics-review", "ics-seed", "reset"}
    [] OTHER -> {}
Gappy(s) == \E k \in Slot : s[k] = None
MCView ==
  <<members, request, form, at, job, held, mix,
    [c \in Client |-> overlap[c] \cap Asked(job[c].command)],
    IF "review" \in racing THEN {None} ELSE applied,
    {id \in stranded \cap Present(request) : Gappy(request[id].slots)},
    {c \in stranded \cap Client : Gappy(job[c].slots)}>>
=============================================================================
