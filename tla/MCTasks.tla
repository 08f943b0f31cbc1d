------------------------------ MODULE MCTasks ------------------------------
(* Three task names and two windows: w1 exports its identity and its host  *)
(* starts sub-agents itself, w2 has only the payloads of its hooks.  Task  *)
(* n2 is a child of task n1 at first.  The files are a few bytes long: a   *)
(* guide that is cut behind a lead byte, a folder of a binary file and one *)
(* file too many, an artifact cut before a character that does not fit in  *)
(* the total, and a short one that does.                                   *)
EXTENDS Hooks

CONSTANTS w1, w2, n1, n2, n3

C(o, x, y) == [op |-> o, a |-> x, b |-> y]

MCFirst ==
    [n \in {n1, n2, n3} |->
       CASE n = n1 -> [NewTask(1, n1) EXCEPT !.status = "in_progress", !.branch = "feature",
                                           !.kids = {n2}, !.manifest = n1]
         [] n = n2 -> [NewTask(2, n2) EXCEPT !.parent = n1]
         [] OTHER -> None]

MCFirstPtr == [w \in {w1, w2} |-> IF w = w1 THEN n1 ELSE None]

MCMenu ==
    [w \in {w1, w2} |->
       IF w = w1
       THEN {C("create", n3, None), C("rename", n1, n3), C("archive", n1, None),
             C("link", n2, n1), C("unlink", n2, n1), C("branch", n2, None),
             C("note", n2, None), C("finish", None, None),
             C("record", None, None)}
       ELSE {C("rename", n2, n3), C("archive", n2, None), C("hurried", n2, None),
             C("archive", n3, None), C("create", n3, n2), C("force", n2, None),
             C("base", n2, None), C("start", n1, None), C("start", n2, None),
             C("finish", None, None), C("link", n1, n2), C("link", n2, n2),
             C("curate", n2, None)}]

MCFileNames == {"guide", "notes", "image", "note", "prd", "plan"}
MCCurated == [names |-> <<"guide", "notes">>, kinds |-> <<"file", "folder">>]
MCArtifacts == <<"prd", "plan">>
MCContentOf ==
    [guide |-> <<"ascii", "lead2", "more", "ascii">>,
     notes |-> None,
     image |-> <<"ascii", "more">>,
     note  |-> <<"ascii">>,
     prd   |-> <<"ascii", "ascii", "ascii", "lead3", "more", "more">>,
     plan  |-> <<"ascii">>]
MCContents == {MCContentOf[f] : f \in MCFileNames \ {"notes"}}
MCFilesIn == [f \in MCFileNames |-> IF f = "notes" THEN <<"image", "note">> ELSE <<>>]
=============================================================================
