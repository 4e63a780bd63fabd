------------------------------- MODULE Reports -------------------------------
(***************************************************************************)
(* The reports of ships, var/reports: one file each, <id>.eml, in the form *)
(* of a mail: headers, an empty line, the body.  A file is written under a *)
(* temporary name of its own and renamed; commands and the web console     *)
(* read, list and delete them.  Every use of the store first renames files *)
(* of its older form, <id>.json.                                           *)
(*                                                                         *)
(* A text is a sequence of lines; of a line it counts whether it is empty, *)
(* reads like a header, or neither.  Of the headers there are the subject, *)
(* which may be any text, and the tags, which are joined with commas; the  *)
(* others (sender, task, date) are like the subject.                       *)
(***************************************************************************)
EXTENDS Sequences, SequencesExt

CONSTANTS
    Id,         \* ids: the time at which a report is made, to the nanosecond
    Client,
    Drafts,     \* what is submitted
    Olds,       \* the ids of files in the older form
    None,
    Partly      \* the content of a file that is being written

Line == {"text", "empty", "header"}
Tag == {"x", "y", "x,y"}
Report == [subject : Seq(Line), tags : Seq(Tag), body : Seq(Line)]

VARIABLES
    eml, json,  \* the files of the two forms
    op,         \* what each client is doing
    sent,       \* ghost: what was submitted under an id
    deleted     \* ghost: the ids that were deleted

vars == <<eml, json, op, sent, deleted>>

Idle == [pc |-> "idle", id |-> None, draft |-> None, todo |-> {}]

At(c, pc) == op[c].pc = pc

-----------------------------------------------------------------------------
(* The form of a file.                                                     *)

Header(name, value) == [name |-> name, value |-> value]

\* How a line of text looks when it is read as a header.
AsLine(l) ==
    CASE l = "text" -> Header("none", <<>>)
      [] l = "empty" -> Header("empty", <<>>)
      [] l = "header" -> Header("tags", <<"y">>)

AsLines(text) == [i \in DOMAIN text |-> AsLine(text[i])]

\* strings.Join and strings.Split: a comma within a tag splits it.
Split(tags) == FlattenSeq([i \in DOMAIN tags |-> IF tags[i] = "x,y" THEN <<"x", "y">> ELSE <<tags[i]>>])

\* toRFC2822String.
Formatted(d) ==
    <<Header("subject", <<Head(d.subject)>>)>> \o AsLines(Tail(d.subject))
    \o (IF d.tags = <<>> THEN <<>> ELSE <<Header("tags", Split(d.tags))>>)
    \o <<Header("empty", <<>>)>> \o AsLines(d.body)

AsText(line) ==
    CASE line.name = "none" -> "text" [] line.name = "empty" -> "empty" [] OTHER -> "header"

\* The last value of a header counts.
Value(lines, name) ==
    LET given == {i \in DOMAIN lines : lines[i].name = name}
    IN  IF given = {} THEN <<>> ELSE lines[CHOOSE i \in given : \A j \in given : j <= i].value

Trimmed(lines) ==
    LET full == {i \in DOMAIN lines : lines[i].name # "empty"}
    IN  IF full = {} THEN <<>> ELSE SubSeq(lines, 1, CHOOSE i \in full : \A j \in full : j <= i)

Body_SkipsOne(lines, first) == Trimmed(SubSeq(lines, first + 2, Len(lines)))

Body(lines, first) == Trimmed(SubSeq(lines, first + 1, Len(lines)))

\* parseRFC2822Format: headers up to the first empty line; without one there
\* are headers only, and all of it is the body too.
Parsed(lines) ==
    LET empties == {i \in DOMAIN lines : lines[i].name = "empty"}
        first == IF empties = {} THEN 0 ELSE CHOOSE i \in empties : \A j \in empties : i <= j
        headers == IF first = 0 THEN lines ELSE SubSeq(lines, 1, first - 1)
        body == Body(lines, first)
    IN  [subject |-> Value(headers, "subject"), tags |-> Value(headers, "tags"),
         body |-> [i \in DOMAIN body |-> AsText(body[i])]]

-----------------------------------------------------------------------------
\* A file is whole when it has been written to its end; one of the older form
\* keeps its form under the new name.
Mail(d) == [form |-> "mail", lines |-> Formatted(d)]
Old == [form |-> "json", lines |-> <<>>]

Content == {None, Partly, Old} \cup {Mail(d) : d \in Drafts}

ReportsAssumption ==
    /\ Drafts \subseteq Report /\ Olds \subseteq Id
    /\ None \notin Drafts \cup Id
    /\ Partly \notin {None, Old} \cup {Mail(d) : d \in Drafts}

TypeOK ==
    /\ eml \in [Id -> Content]
    /\ json \in [Id -> {None, Old}]
    /\ op \in [Client -> [pc : {"idle", "migrate", "ready", "write", "rename"},
                          id : Id \cup {None}, draft : Drafts \cup {None}, todo : SUBSET Id]]
    /\ sent \in [Id -> Drafts \cup {None}]
    /\ deleted \subseteq Id

Init ==
    /\ eml = [i \in Id |-> None]
    /\ json = [i \in Id |-> IF i \in Olds THEN Old ELSE None]
    /\ op = [c \in Client |-> Idle]
    /\ sent = [i \in Id |-> None]
    /\ deleted = {}

\* NewStore, before anything else: migrateLegacySuffix lists,
Begin(c) ==
    /\ At(c, "idle")
    /\ op' = [op EXCEPT ![c].pc = "migrate", ![c].todo = {i \in Id : json[i] # None}]
    /\ UNCHANGED <<eml, json, sent, deleted>>

\* ... and renames each unless the new name is taken or the old one gone.
Renamed_Copies(i) == eml' = [eml EXCEPT ![i] = json[i]] /\ UNCHANGED json

Renamed(i) == eml' = [eml EXCEPT ![i] = json[i]] /\ json' = [json EXCEPT ![i] = None]

Migrate(c) ==
    /\ At(c, "migrate")
    /\ \/ /\ op[c].todo = {}
          /\ op' = [op EXCEPT ![c].pc = "ready"]
          /\ UNCHANGED <<eml, json>>
       \/ \E i \in op[c].todo :
            /\ op' = [op EXCEPT ![c].todo = @ \ {i}]
            /\ IF eml[i] = None /\ json[i] # None THEN Renamed(i) ELSE UNCHANGED <<eml, json>>
    /\ UNCHANGED <<sent, deleted>>

\* runSubmit, apiReports: the id is the time, so nobody has it.
Submit(c) ==
    /\ At(c, "ready")
    /\ \E i \in Id \ Olds, d \in Drafts :
        /\ sent[i] = None /\ \A b \in Client : op[b].id # i
        /\ op' = [op EXCEPT ![c].pc = "write", ![c].id = i, ![c].draft = d]
    /\ UNCHANGED <<eml, json, sent, deleted>>

Write_InPlace(c) ==
    /\ At(c, "write")
    /\ op' = [op EXCEPT ![c].pc = "rename"]
    /\ eml' = [eml EXCEPT ![op[c].id] = Partly]
    /\ UNCHANGED <<json, sent, deleted>>

\* Create: a temporary file, which nobody reads and which a death leaves,
Write(c) ==
    /\ At(c, "write")
    /\ op' = [op EXCEPT ![c].pc = "rename"]
    /\ UNCHANGED <<eml, json, sent, deleted>>

\* ... is renamed when it is complete.
Rename(c) ==
    /\ At(c, "rename")
    /\ eml' = [eml EXCEPT ![op[c].id] = Mail(op[c].draft)]
    /\ sent' = [sent EXCEPT ![op[c].id] = op[c].draft]
    /\ op' = [op EXCEPT ![c] = Idle]
    /\ UNCHANGED <<json, deleted>>

\* Delete fails when there is no such file.
Delete(c) ==
    /\ At(c, "ready")
    /\ \E i \in Id :
        /\ eml' = [eml EXCEPT ![i] = None]
        /\ deleted' = IF eml[i] = None THEN deleted ELSE deleted \cup {i}
    /\ op' = [op EXCEPT ![c] = Idle]
    /\ UNCHANGED <<json, sent>>

\* Get and List read; a listing also takes files of the older form.
Listed == {i \in Id : eml[i] # None \/ json[i] # None}

Show(c) ==
    /\ At(c, "ready")
    /\ op' = [op EXCEPT ![c] = Idle]
    /\ UNCHANGED <<eml, json, sent, deleted>>

Die(c) ==
    /\ ~At(c, "idle")
    /\ op' = [op EXCEPT ![c] = Idle]
    /\ UNCHANGED <<eml, json, sent, deleted>>

Next ==
    \E c \in Client :
        \/ Begin(c) \/ Migrate(c) \/ Submit(c) \/ Write(c) \/ Rename(c)
        \/ Delete(c) \/ Show(c) \/ Die(c)

Spec == Init /\ [][Next]_vars

-----------------------------------------------------------------------------
\* What a reader is shown of a mail.
Seen(i) == Parsed(eml[i].lines)

\* Create and parseRFC2822Format: a report that is there is whole and reads as
\* it was sent, but for commas in tags and empty lines at the end of the body,
\* if its subject is one line.
ReportReadsBack ==
    \A i \in Id :
        /\ eml[i] # Partly
        /\ eml[i] \notin {None, Partly, Old} /\ Len(sent[i].subject) = 1 =>
               /\ Seen(i).subject = sent[i].subject
               /\ Seen(i).tags = Split(sent[i].tags)
               /\ LET n == Len(Seen(i).body) IN
                    /\ Seen(i).body = SubSeq(sent[i].body, 1, n)
                    /\ \A k \in n + 1 .. Len(sent[i].body) : sent[i].body[k] = "empty"

\* Delete: what is deleted is gone for good, also when others are renaming
\* files of the older form meanwhile.
DeletedIsGone == deleted \cap Listed = {}
=============================================================================
