------------------------------- MODULE Settings -------------------------------
(***************************************************************************)
(* A YAML file of the workspace that is edited in the web console: a page  *)
(* loads it, its user changes the text, and apiFileSave merges the text    *)
(* into what the file holds by then, so that comments survive.  Others may *)
(* write the file meanwhile; there is no lock.                             *)
(*                                                                         *)
(* The file is a mapping of keys; a value is a scalar, a list or a mapping *)
(* of scalars, and has a comment or none.                                  *)
(***************************************************************************)
EXTENDS Integers

CONSTANTS
    Key, Sub,   \* keys, and those of a mapping within
    Scalar, Item,
    Page,       \* open editors
    Comment,
    Texts,      \* what users save: mappings
    Files,      \* what the file holds at first
    Others,     \* what others write into it
    MaxSaves,   \* bound: how often the pages save, and others write
    None,       \* no value, no comment, an empty file
    Torn        \* the content of a file that is no YAML

Leaf == [kind : {"scalar"}, value : Scalar, comment : Comment \cup {None}]
List == [kind : {"list"}, value : SUBSET Item, comment : Comment \cup {None}]
Map == [kind : {"map"}, value : [Sub -> Leaf \cup {None}], comment : Comment \cup {None}]
Node == Leaf \cup List \cup Map

\* A value that has lost what was within, as it is written.
Hollow(kind, comment) ==
    [kind |-> kind, comment |-> comment,
     value |-> IF kind = "list" THEN {} ELSE [s \in Sub |-> None]]

Document == [Key -> Node \cup {None}]

SettingsAssumption ==
    /\ Texts \subseteq Document /\ Files \subseteq Document /\ Others \subseteq Document
    /\ MaxSaves \in Nat

VARIABLES
    file,
    save,       \* what each page is doing
    saves,
    crossed     \* ghost: the file was written between a save's read and its write

vars == <<file, save, saves, crossed>>

Idle == [pc |-> "idle", text |-> None, orig |-> None]

TypeOK ==
    /\ file \in Document \cup {None, Torn}
    /\ save \in [Page -> [pc : {"idle", "read", "truncate", "write", "saved"},
                          text : Document \cup {None}, orig : Document \cup {None, Torn}]]
    /\ saves \in 0 .. MaxSaves
    /\ crossed \in [Page -> BOOLEAN]

Init ==
    /\ file \in Files
    /\ save = [p \in Page |-> Idle]
    /\ saves = 0
    /\ crossed = [p \in Page |-> FALSE]

At(p, pc) == save[p].pc = pc

Crossed(p) ==
    [q \in Page |-> crossed[q] \/ (q # p /\ save[q].pc \in {"truncate", "write", "saved"})]

-----------------------------------------------------------------------------
\* A new value under an old key: the comment stays; of a list only the new one
\* counts; and where kinds differ, or with scalars, the node is made of the new
\* one's kind and text, without what is in it.
Replaced_KeepsOld(o, n) == o

Replaced(o, n) ==
    IF n.kind = "scalar" \/ (o.kind = "list" /\ n.kind = "list")
    THEN [n EXCEPT !.comment = o.comment]
    ELSE Hollow(n.kind, o.comment)

Merged2(o, n) == IF o = None THEN n ELSE IF n = None THEN o ELSE Replaced(o, n)

\* mergeYAMLNodes, of two values: a key that is only in the old one stays.
MergedNode(o, n) ==
    IF o = None THEN n
    ELSE IF n = None THEN o
    ELSE IF o.kind = "map" /\ n.kind = "map"
         THEN [o EXCEPT !.value = [s \in Sub |-> Merged2(o.value[s], n.value[s])]]
         ELSE Replaced(o, n)

Merged(orig, text) ==
    IF orig = Torn THEN text ELSE [k \in Key |-> MergedNode(orig[k], text[k])]

-----------------------------------------------------------------------------
\* apiFileSave: the text is parsed before anything is done.
Save(p) ==
    /\ At(p, "idle") /\ saves < MaxSaves
    /\ saves' = saves + 1
    /\ \E t \in Texts : save' = [save EXCEPT ![p] = [Idle EXCEPT !.pc = "read", !.text = t]]
    /\ crossed' = [crossed EXCEPT ![p] = FALSE]
    /\ UNCHANGED file

\* Without a document to merge into the result has none either, which cannot be
\* written: the save fails.
Read(p) ==
    /\ At(p, "read")
    /\ save' = [save EXCEPT ![p] = IF file = None THEN Idle
                                   ELSE [@ EXCEPT !.pc = "truncate", !.orig = file]]
    /\ UNCHANGED <<file, saves, crossed>>

\* os.WriteFile.
Truncate(p) ==
    /\ At(p, "truncate")
    /\ file' = None
    /\ save' = [save EXCEPT ![p].pc = "write"]
    /\ crossed' = Crossed(p)
    /\ UNCHANGED saves

Write(p) ==
    /\ At(p, "write")
    /\ \E c \in {Merged(save[p].orig, save[p].text)} \cup (IF file = None THEN {} ELSE {Torn}) :
           file' = c
    /\ save' = [save EXCEPT ![p].pc = "saved"]
    /\ crossed' = Crossed(p)
    /\ UNCHANGED saves

\* The page is told; from then on the file is anybody's.
Told(p) ==
    /\ At(p, "saved")
    /\ save' = [save EXCEPT ![p] = Idle]
    /\ UNCHANGED <<file, saves, crossed>>

\* An agent, an editor, another command.
Other ==
    /\ saves < MaxSaves
    /\ saves' = saves + 1
    /\ file' \in Others
    /\ crossed' = [p \in Page |-> TRUE]
    /\ UNCHANGED save

\* The web server dies with what it is doing.
Die ==
    /\ \E p \in Page : ~At(p, "idle")
    /\ save' = [p \in Page |-> Idle]
    /\ UNCHANGED <<file, saves, crossed>>

Next == Other \/ Die \/ \E p \in Page : Save(p) \/ Read(p) \/ Truncate(p) \/ Write(p) \/ Told(p)

Spec == Init /\ [][Next]_vars

-----------------------------------------------------------------------------
\* What a save wants: its text, with the comments that were there and the keys
\* that the text does not have.
Wanted(o, n) ==
    IF o = None THEN n ELSE IF n = None THEN o
    ELSE IF o.kind = "map" /\ n.kind = "map"
    THEN [o EXCEPT !.value = [s \in Sub |->
            IF o.value[s] = None THEN n.value[s] ELSE IF n.value[s] = None THEN o.value[s]
            ELSE [n.value[s] EXCEPT !.comment = o.value[s].comment]]]
    ELSE [n EXCEPT !.comment = o.comment]

\* Done by a save that nobody has crossed, with the file as it was.
Alone(p) == At(p, "saved") /\ ~crossed[p] /\ save[p].orig # Torn

\* saveYAMLWithComments: a save alone puts the user's values into the file,
\* beside the comments and the keys that are not in the text; but a value that
\* becomes a list or a mapping comes out empty.
SaveTakesEffect ==
    \A p \in Page : Alone(p) =>
        \A k \in Key :
            LET o == save[p].orig[k]
                n == save[p].text[k]
                w == Wanted(o, n)
            IN  \/ file[k] = w
                \/ /\ o # None /\ n # None /\ o.kind # n.kind
                   /\ file[k] = Hollow(n.kind, o.comment)
=============================================================================
