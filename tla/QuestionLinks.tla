---------------------------- MODULE QuestionLinks ----------------------------
(***************************************************************************)
(* Conditional questions of questions.service.ts: a question has a parent, *)
(* rows that link it to options, and in each test that has it a flag that  *)
(* says whether it is conditional.  The three are written by separate      *)
(* statements, of requests that overlap and may fail between any two; only *)
(* the creation of a question is one transaction.                          *)
(***************************************************************************)
EXTENDS FiniteSets, Naturals

CONSTANTS
    Questions,  \* that may have a parent
    Parents,
    Options,
    OwnerOf,    \* the parent each option belongs to
    Tests,
    Requests,
    Rows,       \* bound on the rows of optionQuestions
    NULL,       \* null
    Omitted     \* a field a request does not give

Link == [question : Questions, option : Options]

ASSUME QuestionLinksAssumption ==
    /\ OwnerOf \in [Options -> Parents]
    /\ IsFiniteSet(Rows) /\ IsFiniteSet(Requests) /\ Requests # {}
    /\ {NULL, Omitted} \cap (Parents \cup Options \cup Rows) = {}
    /\ NULL # Omitted /\ NULL \notin Questions /\ NULL \notin Link /\ NULL \notin BOOLEAN

VARIABLES
    parent,   \* parentId of each question, Omitted before it is created
    links,    \* rows of optionQuestions
    flags,    \* isConditional of each question in each test, NULL where it is in none
    req,      \* the requests in flight
    settled   \* auxiliary: nothing known to upset a question since it was last put right

vars == <<parent, links, flags, req, settled>>

Linked(q) == {row \in Rows : links[row] # NULL /\ links[row].question = q}
LinkedTo(q, o) == {row \in Linked(q) : links[row].option = o}

\* The flag of a question in every test that has it.
Flagged(q, b) == [t \in Tests |-> IF flags[q][t] = NULL THEN NULL ELSE b]

\* A request for a question: what it was given, the association it has found,
\* the flag it will set, whether it has been alone with the question, and whether
\* it puts right whatever it finds.
Request(pc, q, p, o) ==
    [pc |-> pc, question |-> q, parent |-> p, option |-> o, row |-> NULL, flag |-> TRUE,
     alone |-> FALSE, repairs |-> p # Omitted /\ o # Omitted]

NoRequest == Request("idle", NULL, Omitted, Omitted)
Active(r, q) == req[r].pc # "idle" /\ req[r].question = q
Busy(q) == \E r \in Requests : Active(r, q)

Init == /\ parent = [q \in Questions |-> Omitted]
        /\ links = [row \in Rows |-> NULL]
        /\ flags = [q \in Questions |-> [t \in Tests |-> NULL]]
        /\ req = [r \in Requests |-> NoRequest]
        /\ settled = [q \in Questions |-> TRUE]

\* Two requests for one question are no longer alone with it.
Begins(r, new) ==
    LET q == new.question
    IN  /\ req[r] = NoRequest /\ parent[q] # Omitted
        /\ req' = [s \in Requests |->
                        IF s = r THEN [new EXCEPT !.alone = ~Busy(q)]
                        ELSE IF Active(s, q) THEN [req[s] EXCEPT !.alone = FALSE] ELSE req[s]]
        /\ settled' = [settled EXCEPT ![q] = @ /\ ~Busy(q)]

Goes(r, pc) == req' = [req EXCEPT ![r].pc = pc] /\ UNCHANGED settled

Ends(r) ==
    /\ req' = [req EXCEPT ![r] = NoRequest]
    /\ settled' = [settled EXCEPT ![req[r].question] = @ \/ (req[r].alone /\ req[r].repairs)]

\* Whatever statement it was at, those before it stay.
Fails(r) ==
    /\ req[r] # NoRequest
    /\ req' = [req EXCEPT ![r] = NoRequest]
    /\ settled' = [settled EXCEPT ![req[r].question] = @ /\ req[r].pc \in {"check", "delete", "save"}]
    /\ UNCHANGED <<parent, links, flags>>

\* A row no request has read, ids being unique.
NewLink(q, o) ==
    \E row \in Rows :
        /\ links[row] = NULL
        /\ \A r \in Requests : req[r].pc = "delete" => req[r].row # row
        /\ links' = [links EXCEPT ![row] = [question |-> q, option |-> o]]

\* validateConditionalQuestionParameters
Permitted(p, o) == o \notin {NULL, Omitted} => p \in Parents /\ OwnerOf[o] = p

-----------------------------------------------------------------------------
\* In one transaction, and perhaps for a test.
Create(q, p, o, In) ==
    /\ parent[q] = Omitted /\ Permitted(p, o)
    /\ parent' = [parent EXCEPT ![q] = p]
    /\ IF o = NULL THEN UNCHANGED links ELSE NewLink(q, o)
    /\ flags' = [flags EXCEPT ![q] = [t \in Tests |-> IF t \in In THEN p # NULL ELSE NULL]]
    /\ UNCHANGED <<req, settled>>

\* The row has the default, not conditional.
AddQuestionToTest(q, t) ==
    /\ parent[q] # Omitted /\ flags[q][t] = NULL
    /\ flags' = [flags EXCEPT ![q][t] = FALSE]
    /\ settled' = [settled EXCEPT ![q] = @ /\ Linked(q) = {}]
    /\ UNCHANGED <<parent, links, req>>

Associate(r, q, o) ==
    /\ parent[q] = OwnerOf[o]
    /\ Begins(r, Request("check", q, Omitted, o))
    /\ UNCHANGED <<parent, links, flags>>

\* Mutant: what is associated already is not refused.
AssociateTwice(r) ==
    /\ req[r].pc = "check"
    /\ Goes(r, "insert")
    /\ UNCHANGED <<parent, links, flags>>

AssociateCheck(r) ==
    /\ req[r].pc = "check"
    /\ IF LinkedTo(req[r].question, req[r].option) = {} THEN Goes(r, "insert") ELSE Ends(r)
    /\ UNCHANGED <<parent, links, flags>>

\* Of an association and of an update.
InsertLink(r) ==
    /\ req[r].pc = "insert"
    /\ NewLink(req[r].question, req[r].option)
    /\ Goes(r, "flag")
    /\ UNCHANGED <<parent, flags>>

\* What another request has deleted meanwhile is gone already.
Disassociate(r, q, o) ==
    /\ \E row \in LinkedTo(q, o) :
        Begins(r, [Request("delete", q, Omitted, o) EXCEPT !.row = row])
    /\ UNCHANGED <<parent, links, flags>>

DisassociateDelete(r) ==
    /\ req[r].pc = "delete"
    /\ links' = [links EXCEPT ![req[r].row] = NULL]
    /\ Goes(r, "count")
    /\ UNCHANGED <<parent, flags>>

\* Mutant: none is taken to remain.
DisassociateUncounted(r) ==
    /\ req[r].pc = "count"
    /\ req' = [req EXCEPT ![r].pc = "flag", ![r].flag = FALSE]
    /\ UNCHANGED <<parent, links, flags, settled>>

DisassociateCount(r) ==
    /\ req[r].pc = "count"
    /\ req' = [req EXCEPT ![r].pc = "flag", ![r].flag = Linked(req[r].question) # {}]
    /\ UNCHANGED <<parent, links, flags, settled>>

\* updateTestQuestionConditionalFlag, the last statement of each request.
SetFlag(r) ==
    /\ req[r].pc = "flag"
    /\ flags' = [flags EXCEPT ![req[r].question] = Flagged(req[r].question, req[r].flag)]
    /\ Ends(r)
    /\ UNCHANGED <<parent, links>>

Update(r, q, p, o) ==
    /\ Permitted(p, o)
    /\ LET new == Request("save", q, p, o)
       IN  Begins(r, [new EXCEPT !.flag = p # NULL])
    /\ UNCHANGED <<parent, links, flags>>

\* Links, if there are any, stay to options of the former parent.
Reparents(r) ==
    LET q == req[r].question
    IN  /\ req' = [req EXCEPT ![r].pc = "flag"]
        /\ settled' = [settled EXCEPT ![q] = @ /\ Linked(q) = {}]

UpdateSave(r) ==
    LET u == req[r]
    IN  /\ u.pc = "save"
        /\ parent' = [parent EXCEPT ![u.question] = IF u.parent = Omitted THEN @ ELSE u.parent]
        /\ CASE u.option # Omitted -> Goes(r, "unlink")
             [] u.option = Omitted /\ u.parent # Omitted -> Reparents(r)
             [] OTHER -> Ends(r)
        /\ UNCHANGED <<links, flags>>

\* Mutant: a link is inserted whether or not an option is given.
UpdateRelink(r) ==
    /\ req[r].pc = "unlink"
    /\ links' = [row \in Rows |-> IF row \in Linked(req[r].question) THEN NULL ELSE links[row]]
    /\ Goes(r, "insert")
    /\ UNCHANGED <<parent, flags>>

UpdateUnlink(r) ==
    LET u == req[r]
    IN  /\ u.pc = "unlink"
        /\ links' = [row \in Rows |-> IF row \in Linked(u.question) THEN NULL ELSE links[row]]
        /\ CASE u.option # NULL -> Goes(r, "insert")
             [] u.option = NULL /\ u.parent # Omitted -> Goes(r, "flag")
             [] OTHER -> Ends(r)
        /\ UNCHANGED <<parent, flags>>

Next ==
    \/ \E q \in Questions, p \in Parents \cup {NULL}, o \in Options \cup {NULL}, In \in SUBSET Tests :
            Create(q, p, o, In)
    \/ \E q \in Questions, t \in Tests : AddQuestionToTest(q, t)
    \/ \E r \in Requests, q \in Questions :
        \/ \E o \in Options : Associate(r, q, o) \/ Disassociate(r, q, o)
        \/ \E p \in Parents \cup {NULL, Omitted}, o \in Options \cup {NULL, Omitted} : Update(r, q, p, o)
    \/ \E r \in Requests :
        \/ AssociateCheck(r) \/ InsertLink(r)
        \/ DisassociateDelete(r) \/ DisassociateCount(r)
        \/ UpdateSave(r) \/ UpdateUnlink(r)
        \/ SetFlag(r) \/ Fails(r)

Spec == Init /\ [][Next]_vars

-----------------------------------------------------------------------------
\* Rows, flags and requests are what their types say.
TypeOK ==
    /\ parent \in [Questions -> Parents \cup {NULL, Omitted}]
    /\ links \in [Rows -> Link \cup {NULL}]
    /\ flags \in [Questions -> [Tests -> BOOLEAN \cup {NULL}]]
    /\ settled \in [Questions -> BOOLEAN]
    /\ \A r \in Requests :
        \/ req[r] = NoRequest
        \/ /\ req[r].pc \in {"check", "insert", "delete", "count", "flag", "save", "unlink"}
           /\ req[r].question \in Questions
           /\ req[r].pc \in {"check", "insert"} => req[r].option \in Options
           /\ req[r].pc \in {"delete"} => req[r].row \in Rows

(***************************************************************************)
(* associateQuestionWithOption checks before it inserts, with no unique    *)
(* constraint behind it, and an update deletes before it inserts: requests *)
(* that overlap can link a question to an option again, but never more     *)
(* often than there are requests in flight together, and one at a time     *)
(* never twice.                                                            *)
(***************************************************************************)
DuplicatesBounded ==
    \A q \in Questions, o \in Options :
        Cardinality(LinkedTo(q, o)) <= Cardinality(Requests)

(***************************************************************************)
(* update, associateQuestionWithOption, removeQuestionOptionAssociation:   *)
(* whatever overlaps, failures and changes of the parent alone or of the   *)
(* option alone have left behind, an update that gives both and runs alone *)
(* to its end puts a question right, and associations keep it so: its      *)
(* links are to options of its parent, one to each, and in every test that *)
(* has it it is conditional if it has links, and only if it has a parent.  *)
(***************************************************************************)
LinksSettle ==
    \A q \in Questions : settled[q] /\ ~Busy(q) =>
        /\ \A row \in Linked(q) :
            /\ OwnerOf[links[row].option] = parent[q]
            /\ LinkedTo(q, links[row].option) = {row}
        /\ \A t \in Tests : flags[q][t] # NULL =>
            /\ Linked(q) # {} => flags[q][t]
            /\ flags[q][t] => parent[q] # NULL
=============================================================================
