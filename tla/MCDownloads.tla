---------------------------- MODULE MCDownloads ----------------------------
(* Three URLs, two of which end in the same file name. *)
EXTENDS Downloads

MCUrls == {"a", "a2", "b"}
MCNameOf == [u \in MCUrls |-> IF u = "b" THEN "b.gguf" ELSE "a.gguf"]

\* Everything at once; a hasty user and a good network; a patient one.
AllSetups ==
    {[waits |-> FALSE, networkFails |-> TRUE, downloads |-> 2, launches |-> 2],
     [waits |-> FALSE, networkFails |-> FALSE, downloads |-> 3, launches |-> 1],
     [waits |-> TRUE, networkFails |-> FALSE, downloads |-> 3, launches |-> 1]}
=============================================================================
