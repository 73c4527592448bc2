------------------------------ MODULE CtlEdit -------------------------------
(***************************************************************************)
(* jobuctl job update and queue update without fields: the definition is   *)
(* fetched, written to a draft in a private directory, edited by a person, *)
(* read back, reduced to what has changed, saved as a request and          *)
(* submitted at the revision that was displayed.  While the editor runs    *)
(* other clients change the definition, delete it or reuse its name, and   *)
(* the person may do anything to the files.  Any system call may fail.     *)
(*                                                                         *)
(* A definition has a number (a job's priority, a queue's weight) and a    *)
(* layer of attributes.  Jobs patch their attributes; queues replace their *)
(* defaults.  A number in a document has the type the JSON parser gave it. *)
(***************************************************************************)
EXTENDS Integers, Sequences, FiniteSets

CONSTANTS
    MaxOthers,    \* changes other clients make
    MaxMeddling     \* things that happen to the files besides saving the draft

Ids == {1, 2}
Omit == <<"omit", 0>>
OmitLayer == {Omit}
NoDef == [rev |-> 0, num |-> 0, layer |-> {}]
NoDoc == [is |-> "none"]

VARIABLES
    resource,     \* "job" or "queue"
    byName,       \* the queue is given by its name
    ePhase,       \* how far run_job_edit or run_queue_edit has come
    baseline,     \* JobEditBaseline or QueueEditBaseline
    edited,       \* the draft as read and parsed
    params,       \* PreparedJobUpdate or PreparedQueueUpdate
    dir,          \* the private directory: "none", "ours", or "replaced" by another at its path
    files,        \* what the directory that is held open contains
    present,      \* _draft_present, _request_present and _request_ready
    ignored,      \* signals this process ignores or blocks
    ending,       \* exit code, error, advice, and what was said of the directory
    server,       \* the definitions by id
    bearer,       \* the id of the definition with the name
    submitted,    \* the update is on its way
    answer,       \* the daemon's answer
    saved,        \* what the person saved last
    updates,      \* the updates the daemon has made for this command: definition before and after
    others, meddling

editVars == <<resource, byName, ePhase, baseline, edited, params, dir, files, present, ignored, ending,
              server, bearer, submitted, answer, saved, updates, others, meddling>>
atServer == <<server, bearer, submitted, answer, updates>>
outside == <<resource, byName, saved, others, meddling>>

-----------------------------------------------------------------------------
(* Documents.                                                              *)

\* job_to_json and queue_to_json: priorities are signed, weights unsigned.
Encoded(n) == IF resource = "job" THEN <<"int", n>> ELSE <<"uint", n>>
from_resource(id) ==
    [is |-> "doc", id |-> id, rev |-> server[id].rev, num |-> Encoded(server[id].num), layer |-> server[id].layer]

\* Formatting and parsing again: whatever is not negative comes back unsigned.
parse_edit_draft(doc) == IF doc.num[1] = "int" /\ doc.num[2] >= 0 THEN [doc EXCEPT !.num[1] = "uint"] ELSE doc

\* Mutant: numbers of different types differ.
SameTyped(a, b) == a = b
same_json_value(a, b) ==
    \/ a = b
    \/ {a[1], b[1]} = {"int", "uint"} /\ a[2] = b[2] /\ a[2] >= 0

changed_attributes(original, new) == new \ original

\* Mutant: defaults are a patch too.
MinimalPatch(original, new) ==
    LET layer == IF new.layer = OmitLayer THEN {} ELSE changed_attributes(original.layer, new.layer)
    IN  [is |-> "params", id |-> original.id, rev |-> original.rev,
         num |-> IF new.num = Omit \/ same_json_value(original.num, new.num) THEN Omit ELSE new.num,
         layer |-> IF layer = {} THEN OmitLayer ELSE layer]
minimal_update(original, new) ==
    LET layer == IF new.layer = OmitLayer THEN {} ELSE changed_attributes(original.layer, new.layer)
    IN  [is |-> "params", id |-> original.id, rev |-> original.rev,
         num |-> IF new.num = Omit \/ same_json_value(original.num, new.num) THEN Omit ELSE new.num,
         layer |-> CASE resource = "job" /\ layer = {} -> OmitLayer
                     [] resource = "job" /\ layer # {} -> layer
                     [] resource = "queue" /\ new.layer = original.layer -> OmitLayer
                     [] OTHER -> new.layer]

\* Mutant: the identity is taken from the baseline whatever the draft says.
IdentityRestored(original, new) == TRUE
IdentityKept(original, new) == new.id = original.id /\ new.rev = original.rev

decode_command_request(doc) == doc.num[1] # "float"
NothingChanged(p) == p.num = Omit /\ p.layer = OmitLayer

-----------------------------------------------------------------------------
(* Files.                                                                  *)

NoFiles == [draft |-> NoDoc, request |-> NoDoc, foreign |-> FALSE, stray |-> FALSE]
NotPresent == [draft |-> FALSE, request |-> FALSE, ready |-> FALSE]

\* Mutant: the request is removed by name.
RemovableByName(name) == files[name].is # "unsafe"
\* remove_file: only regular files, and the request only if it is the file that was written.
Removable(name) == files[name].is # "unsafe" /\ (name = "request" => ~files.foreign)

Cleaned(d, f, p, ok) == [dir |-> d, files |-> f, present |-> p, ok |-> ok]
WithoutDraft == [files EXCEPT !.draft = NoDoc]
WithoutRequest == [files EXCEPT !.draft = NoDoc, !.request = NoDoc, !.foreign = FALSE]
DraftForgotten == [present EXCEPT !.draft = FALSE]

\* Mutant: the directory is not compared with the one held open.
SameDirectoryByPath == dir # "none"
SameDirectory == dir = "ours"

\* The ways cleanup may end: it gives up at the first file or directory it may not or cannot remove.
cleanup ==
    LET draftGone == SameDirectory /\ Removable("draft")
        requestGone == draftGone /\ (present.request => Removable("request"))
        left == IF present.request THEN WithoutRequest ELSE WithoutDraft
    IN  {Cleaned(dir, files, present, FALSE)}
        \cup (IF draftGone THEN {Cleaned(dir, WithoutDraft, DraftForgotten, FALSE)} ELSE {})
        \cup (IF requestGone THEN {Cleaned(dir, left, NotPresent, FALSE)} ELSE {})
        \cup (IF requestGone /\ left = NoFiles THEN {Cleaned("none", NoFiles, NotPresent, TRUE)} ELSE {})

End(code, error, advice, retained) ==
    /\ ePhase' = "done"
    /\ ending' = [code |-> code, error |-> error, advice |-> advice, retained |-> retained]

\* cleanup_edit
CleanUp(code, error) ==
    \E c \in cleanup :
        /\ dir' = c.dir /\ files' = c.files /\ present' = c.present
        /\ End(IF ~c.ok /\ code = 0 THEN 3 ELSE code, error, "none", ~c.ok)

\* format_edit_recovery: a request is offered only when it is complete and the reason allows for it.
Advice(reason) == IF reason \in {"InvalidDraft", "MissingDraft"} \/ ~present.ready THEN "correct the draft" ELSE reason

\* print_recovery: the directory and the draft are named.
Recover(code, error, reason) == End(code, error, Advice(reason), TRUE) /\ UNCHANGED dir

-----------------------------------------------------------------------------
(* The workflow.                                                           *)

\* Neither a terminal nor an editor command, nothing is fetched.
CheckTerminal ==
    /\ ePhase = "check"
    /\ \/ ePhase' = "fetch" /\ UNCHANGED ending
       \/ \E error \in {"terminal_required", "invalid_editor"} : End(2, error, "none", FALSE)
    /\ UNCHANGED <<baseline, edited, params, dir, files, present, ignored, atServer, outside>>

Fetch ==
    /\ ePhase = "fetch"
    /\ LET id == IF byName THEN bearer ELSE 1
       IN  \/ \E code \in {1, 3} : End(code, "fetch_failed", "none", FALSE) /\ UNCHANGED baseline
           \/ End(3, "invalid_reply", "none", FALSE) /\ UNCHANGED baseline
           \/ /\ server[id] # NoDef
              /\ baseline' = from_resource(id)
              /\ ePhase' = "create" /\ UNCHANGED ending
    /\ UNCHANGED <<edited, params, dir, files, present, ignored, atServer, outside>>

\* create: a directory that cannot be filled is removed again, or its path is told.
Create ==
    /\ ePhase = "create"
    /\ LET draft == [NoFiles EXCEPT !.draft = parse_edit_draft(baseline)]
       IN  \/ End(2, "create_failed", "none", FALSE) /\ UNCHANGED <<dir, files, present>>
           \/ /\ End(2, "create_failed", "none", TRUE)
              /\ dir' = "ours" /\ files' \in {NoFiles, [NoFiles EXCEPT !.draft.is = "broken"]}
              /\ present' = NotPresent
           \/ /\ dir' = "ours" /\ files' = draft /\ present' = [NotPresent EXCEPT !.draft = TRUE]
              /\ ePhase' = "launch" /\ UNCHANGED ending
    /\ UNCHANGED <<baseline, edited, params, ignored, atServer, outside>>

\* ParentSignals::install and restore.
Installed == {"chld", "int", "quit"}
Restored == SUBSET ignored

LaunchEditor ==
    /\ ePhase = "launch"
    /\ \/ /\ ePhase' = "editing" /\ ignored' = Installed
          /\ UNCHANGED <<ending, dir, files, present>>
       \/ CleanUp(3, "launch_failed") /\ UNCHANGED ignored
    /\ UNCHANGED <<baseline, edited, params, atServer, outside>>

\* waitpid returns; signals that cannot be restored make a failure of a success.
EditorExits ==
    /\ ePhase = "editing"
    /\ \/ ignored' = {} /\ ePhase' = "read" /\ UNCHANGED <<ending, dir, files, present>>
       \/ ignored' = {} /\ CleanUp(1, "cancelled")
       \/ ignored' = {} /\ CleanUp(3, "wait_failed")
       \/ ignored' \in Restored /\ CleanUp(3, "signal_restore_failed")
    /\ UNCHANGED <<baseline, edited, params, atServer, outside>>

read_draft ==
    /\ ePhase = "read"
    /\ UNCHANGED <<baseline, params, files, present, ignored, atServer, outside>>
    /\ \/ /\ files.draft.is \in {"doc", "broken"}
          /\ edited' = files.draft /\ ePhase' = "prepare" /\ UNCHANGED <<ending, dir>>
       \/ files.draft.is = "none" /\ Recover(2, "missing_draft", "MissingDraft") /\ UNCHANGED edited
       \/ files.draft.is = "unsafe" /\ Recover(2, "unsafe_draft", "InvalidDraft") /\ UNCHANGED edited
       \/ files.draft.is # "none" /\ Recover(2, "read_failed", "InvalidDraft") /\ UNCHANGED edited

\* prepare_job_update and prepare_queue_update.
Prepare ==
    /\ ePhase = "prepare"
    /\ UNCHANGED <<baseline, edited, ignored, atServer, outside>>
    /\ \/ /\ edited.is = "broken" \/ ~IdentityKept(baseline, edited) \/ ~decode_command_request(edited)
          /\ UNCHANGED <<params, files, present>> /\ Recover(2, "invalid_draft", "InvalidDraft")
       \/ /\ edited.is # "broken" /\ IdentityKept(baseline, edited) /\ decode_command_request(edited)
          /\ LET p == minimal_update(baseline, edited)
             IN  \/ NothingChanged(p) /\ UNCHANGED params /\ CleanUp(0, "none")
                 \/ /\ ~NothingChanged(p) /\ params' = p /\ ePhase' = "write"
                    /\ UNCHANGED <<ending, dir, files, present>>

\* write_file: complete and closed, or nothing that may be used.
FileWritten == {params, [params EXCEPT !.is = "broken"]}

\* write_request: created exclusively; what was written of it is removed when it cannot be completed,
\* or remains without being ready.
write_request ==
    /\ ePhase = "write"
    /\ UNCHANGED <<baseline, edited, params, ignored, atServer, outside>>
    /\ \/ UNCHANGED <<files, present>> /\ Recover(2, "write_failed", "InvalidDraft")
       \/ \E w \in FileWritten :
             /\ files.request = NoDoc
             /\ files' = [files EXCEPT !.request = w]
             /\ present' = [present EXCEPT !.request = TRUE, !.ready = (w = params)]
             /\ IF w = params THEN ePhase' = "submit" /\ UNCHANGED <<ending, dir>>
                ELSE Recover(2, "write_failed", "InvalidDraft")

\* A session of its own, by id: it may fail before the request has left.
Submit ==
    /\ ePhase = "submit"
    /\ \/ ePhase' = "waiting" /\ submitted' = TRUE /\ UNCHANGED <<ending, dir>>
       \/ Recover(3, "connection_failed", "SubmissionFailed") /\ UNCHANGED submitted
    /\ UNCHANGED <<baseline, edited, params, files, present, ignored, server, bearer, answer, updates, outside>>

\* edit_recovery_reason
Reason == IF answer = "conflict" THEN "RevisionConflict" ELSE "SubmissionFailed"

Answered ==
    /\ ePhase = "waiting" /\ answer # "none"
    /\ \/ answer = "updated" /\ CleanUp(0, "none")
       \/ answer # "updated" /\ UNCHANGED <<files, present>> /\ Recover(1, answer, Reason)
    /\ UNCHANGED <<baseline, edited, params, ignored, atServer, outside>>

\* The connection is lost or the deadline passes, before or after the daemon has acted.
Lost ==
    /\ ePhase = "waiting"
    /\ UNCHANGED <<baseline, edited, params, files, present, ignored, atServer, outside>>
    /\ Recover(3, "unknown", "OutcomeUnknown")

-----------------------------------------------------------------------------
(* The daemon, other clients and the person.                               *)

Overlay(old, new) == {e \in old : \A n \in new : n[1] # e[1]} \cup new
Apply(def, p) ==
    [rev |-> def.rev + 1,
     num |-> IF p.num = Omit THEN def.num ELSE p.num[2],
     layer |-> CASE p.layer = OmitLayer -> def.layer
                 [] p.layer # OmitLayer /\ resource = "job" -> Overlay(def.layer, p.layer)
                 [] OTHER -> p.layer]

ServerUpdates ==
    /\ submitted /\ answer = "none"
    /\ LET def == server[params.id]
       IN  IF def = NoDef THEN answer' = "not_found" /\ UNCHANGED <<server, updates>>
           ELSE IF def.rev # params.rev THEN answer' = "conflict" /\ UNCHANGED <<server, updates>>
           ELSE /\ server' = [server EXCEPT ![params.id] = Apply(def, params)]
                /\ answer' = "updated"
                /\ updates' = Append(updates, [id |-> params.id, before |-> def, after |-> server'[params.id]])
    /\ UNCHANGED <<resource, byName, ePhase, baseline, edited, params, dir, files, present, ignored, ending,
                   bearer, submitted, saved, others, meddling>>

OtherClients ==
    /\ others < MaxOthers /\ others' = others + 1
    /\ ePhase \in {"create", "editing", "waiting"}
    /\ \/ /\ server[1] # NoDef
          /\ server' = [server EXCEPT ![1].rev = @ + 1, ![1].num = 3] /\ UNCHANGED bearer
       \/ /\ server[1] # NoDef
          /\ server' = [server EXCEPT ![1] = NoDef, ![2] = [rev |-> 1, num |-> 2, layer |-> {}]] /\ bearer' = 2
    /\ UNCHANGED <<resource, byName, ePhase, baseline, edited, params, dir, files, present, ignored, ending,
                   submitted, answer, saved, updates, meddling>>

\* What a person may save: anything for the fields, another identity, no JSON, or no file.
Drafts ==
    {[parse_edit_draft(baseline) EXCEPT !.num = n, !.layer = l] :
        n \in {Omit, <<"uint", 2>>, <<"float", 1>>, parse_edit_draft(baseline).num},
        l \in {OmitLayer, {}, {<<"a", 2>>}, {<<"b", 1>>}, {<<"a", 1>>, <<"b", 1>>}}}
    \cup {[parse_edit_draft(baseline) EXCEPT !.rev = @ + 1, !.num = <<"uint", 2>>],
          [parse_edit_draft(baseline) EXCEPT !.id = 2, !.num = <<"uint", 2>>]}
    \cup {NoDoc, [parse_edit_draft(baseline) EXCEPT !.is = "broken"], [parse_edit_draft(baseline) EXCEPT !.is = "unsafe"]}

Save ==
    /\ ePhase = "editing" /\ saved = NoDoc
    /\ \E d \in Drafts : files' = [files EXCEPT !.draft = d]
    /\ saved' = [is |-> "saved", doc |-> files'.draft]
    /\ UNCHANGED <<resource, byName, ePhase, baseline, edited, params, dir, present, ignored, ending, atServer,
                   others, meddling>>

\* A backup file of the editor, another directory at the path, another file for the request.
Meddle ==
    /\ Cardinality(meddling) < MaxMeddling
    /\ ePhase \in {"editing", "waiting"}
    /\ \/ /\ "stray" \notin meddling /\ meddling' = meddling \cup {"stray"}
          /\ files' = [files EXCEPT !.stray = TRUE] /\ UNCHANGED dir
       \/ /\ "moved" \notin meddling /\ meddling' = meddling \cup {"moved"}
          /\ dir' = "replaced" /\ UNCHANGED files
       \/ /\ "swapped" \notin meddling /\ meddling' = meddling \cup {"swapped"}
          /\ files' = [files EXCEPT !.request = [is |-> "other"], !.foreign = TRUE] /\ UNCHANGED dir
    /\ UNCHANGED <<resource, byName, ePhase, baseline, edited, params, present, ignored, ending, atServer, saved, others>>

-----------------------------------------------------------------------------
EditInit ==
    /\ resource \in {"job", "queue"}
    /\ byName \in BOOLEAN /\ (byName => resource = "queue")
    /\ ePhase = "check"
    /\ baseline = NoDoc /\ edited = NoDoc /\ params = NoDoc
    /\ dir = "none" /\ files = NoFiles /\ present = NotPresent /\ ignored = {}
    /\ ending = [code |-> -1, error |-> "none", advice |-> "none", retained |-> FALSE]
    /\ server = [i \in Ids |-> IF i = 1 THEN [rev |-> 1, num |-> 1, layer |-> {<<"a", 1>>}] ELSE NoDef]
    /\ bearer = 1 /\ submitted = FALSE /\ answer = "none"
    /\ saved = NoDoc /\ updates = <<>> /\ others = 0 /\ meddling = {}

EditNext ==
    \/ CheckTerminal \/ Fetch \/ Create \/ LaunchEditor \/ EditorExits \/ read_draft \/ Prepare \/ write_request
    \/ Submit \/ Answered \/ Lost
    \/ ServerUpdates \/ OtherClients \/ Save \/ Meddle

-----------------------------------------------------------------------------
(* Properties                                                              *)

\* The definition that was displayed, what a draft asks it to become, and the draft as the person left it.
Displayed == [rev |-> baseline.rev, num |-> baseline.num[2], layer |-> baseline.layer]
Wanted(doc) ==
    [Displayed EXCEPT !.num = IF doc.num = Omit THEN @ ELSE doc.num[2],
                      !.layer = CASE doc.layer = OmitLayer -> @
                                  [] doc.layer # OmitLayer /\ resource = "job" -> Overlay(@, doc.layer)
                                  [] OTHER -> doc.layer]
Kept == IF saved = NoDoc THEN parse_edit_draft(baseline) ELSE saved.doc

\* An interactive edit changes what the person changed and nothing else: one update at most, of the
\* definition that was displayed and is still as displayed, to exactly what was saved, and none when
\* nothing was changed.  Success means that it is so, and that no file is left.  Once the editor has
\* ended well, every failure keeps the saved draft; a request that may have been carried out is kept as it
\* was submitted, and is offered for repetition only with the advice that fits.  A directory that is left
\* behind is named, and what took the place of the edit's own files stays where it is.
EditIsFaithful ==
    /\ Len(updates) <= 1
    /\ \A i \in DOMAIN updates :
          /\ updates[i].id = baseline.id /\ Kept.id = baseline.id /\ Kept.rev = baseline.rev
          /\ updates[i].before = Displayed
          /\ updates[i].after = [Wanted(Kept) EXCEPT !.rev = @ + 1]
          /\ Wanted(Kept) # Displayed
    /\ ePhase = "done" =>
          /\ ending.code = 0 => dir = "none" /\ files = NoFiles /\ (updates = <<>> => Wanted(Kept) = Displayed)
          /\ ending.advice # "none" => files.draft = Kept
          /\ updates # <<>> => ending.error \in {"none", "unknown"}
          /\ submitted /\ ending.advice # "none" => files.request = params \/ files.foreign
          /\ ending.advice \in {"RevisionConflict", "SubmissionFailed"} => updates = <<>>
          /\ submitted => Kept.id = baseline.id /\ Kept.rev = baseline.rev
          /\ dir # "none" => ending.retained
          /\ ignored # {} => ending.error = "signal_restore_failed" /\ ~submitted
          /\ "swapped" \in meddling => files.request.is = "other"
          /\ "moved" \in meddling => dir = "replaced"
=============================================================================
