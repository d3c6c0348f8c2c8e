------------------------- MODULE QuestionLinksProofs -------------------------
(***************************************************************************)
(* What QuestionLinks guarantees for any questions, options and tests, and *)
(* any number of requests in flight, whichever of them fail.               *)
(***************************************************************************)
EXTENDS QuestionLinks, FiniteSetTheorems, TLAPS

(***************************************************************************)
(* Type correctness, with what a request brings along from its checks: the *)
(* option it is about to link is an option of the parent it gives, the row *)
(* it is about to delete is no other question's.                           *)
(***************************************************************************)
Stages == {"idle", "check", "insert", "delete", "count", "flag", "save", "unlink"}

RequestType == [pc : Stages, question : Questions \cup {NULL},
                parent : Parents \cup {NULL, Omitted}, option : Options \cup {NULL, Omitted},
                row : Rows \cup {NULL}, flag : BOOLEAN, alone : BOOLEAN, repairs : BOOLEAN]

Sane(s) ==
    /\ s.pc = "idle" => s = NoRequest
    /\ s.pc # "idle" => s.question \in Questions
    /\ s.pc = "delete" => s.row \in Rows
    /\ s.pc \in {"check", "insert"} => s.option \in Options /\ s.flag
    /\ s.pc \in {"save", "unlink"} =>
          /\ s.flag = (s.parent # NULL)
          /\ s.option \in Options => s.parent \in Parents /\ OwnerOf[s.option] = s.parent
    /\ s.pc = "unlink" => s.option # Omitted
    /\ s.pc \in {"check", "delete", "count"} => ~s.repairs
    /\ s.repairs => s.parent # Omitted /\ s.option # Omitted

Deletes(s) ==
    s.pc = "delete" => links[s.row] = NULL \/ links[s.row].question = s.question

Typed ==
    /\ parent \in [Questions -> Parents \cup {NULL, Omitted}]
    /\ links \in [Rows -> Link \cup {NULL}]
    /\ flags \in [Questions -> [Tests -> BOOLEAN \cup {NULL}]]
    /\ settled \in [Questions -> BOOLEAN]
    /\ req \in [Requests -> RequestType]
    /\ \A r \in Requests : Sane(req[r]) /\ Deletes(req[r])

(***************************************************************************)
(* What holds of a question in between the statements of its requests.     *)
(***************************************************************************)
\* The links of q are to options of its parent, one to each.
Proper(q) ==
    \A row \in Linked(q) :
        /\ OwnerOf[links[row].option] = parent[q]
        /\ \A other \in Linked(q) : links[other].option = links[row].option => other = row

\* q is conditional only if it has a parent.
Parented(q) == \A t \in Tests : flags[q][t] # NULL => (flags[q][t] => parent[q] # NULL)

\* ... and if it has links.
Marked(q) ==
    Parented(q) /\ \A t \in Tests : flags[q][t] # NULL => (Linked(q) # {} => flags[q][t])

\* A request that is alone with a question that was right when it began.
Steady(s, q) ==
    /\ s.pc \in {"check", "delete", "count", "save"} => Proper(q) /\ Marked(q)
    /\ s.pc = "check" => OwnerOf[s.option] = parent[q]
    /\ s.pc = "unlink" /\ s.parent = Omitted => Parented(q)

\* ... or that will put it right.
Heading(s, q) ==
    /\ s.pc = "unlink" /\ s.parent # Omitted => parent[q] = s.parent
    /\ s.pc = "insert" => /\ Proper(q)
                          /\ LinkedTo(q, s.option) = {}
                          /\ OwnerOf[s.option] = parent[q]
    /\ s.pc = "flag" => /\ Proper(q)
                        /\ Linked(q) # {} => s.flag
                        /\ s.flag => parent[q] # NULL

Handled(r, q) ==
    \A s \in RequestType : s = req[r] /\ Active(r, q) /\ s.alone =>
        /\ settled[q] => Steady(s, q)
        /\ settled[q] \/ s.repairs => Heading(s, q)

QuestionInv(q) ==
    /\ parent[q] = Omitted => Linked(q) = {} /\ ~Busy(q)
    /\ \A r, t \in Requests : Active(r, q) /\ Active(t, q) /\ req[r].alone => r = t
    /\ settled[q] => \A r \in Requests : Active(r, q) => req[r].alone
    /\ settled[q] /\ ~Busy(q) => Proper(q) /\ Marked(q)
    /\ \A r \in Requests : Handled(r, q)

LinksInv == \A q \in Questions : QuestionInv(q)

(***************************************************************************)
(* How often a question is linked to an option, or is about to be.         *)
(***************************************************************************)
Inserters(q, o) ==
    {r \in Requests : req[r].pc = "insert" /\ req[r].question = q /\ req[r].option = o}

CopiesInv ==
    \A q \in Questions, o \in Options :
        Cardinality(LinkedTo(q, o)) + Cardinality(Inserters(q, o)) <= Cardinality(Requests)

-----------------------------------------------------------------------------
\* Rows of question q are deleted or inserted; an inserted row is one that no
\* request is about to delete.
LinksStep(q) ==
    /\ links' \in [Rows -> Link \cup {NULL}]
    /\ \A row \in Rows :
          \/ links'[row] = links[row]
          \/ row \in Linked(q) /\ links'[row] = NULL
          \/ /\ links[row] = NULL
             /\ links'[row] # NULL /\ links'[row].question = q
             /\ \A r \in Requests : req[r].pc = "delete" => req[r].row # row

LEMMA SameLinks ==
  ASSUME Typed, UNCHANGED links PROVE \A q \in Questions : LinksStep(q)
  BY DEF Typed, LinksStep

LEMMA LinkTyped ==
  ASSUME NEW q \in Questions, NEW o \in Options
  PROVE  LET link == [question |-> q, option |-> o]
         IN  link \in Link /\ link # NULL /\ link.question = q /\ link.option = o
  BY QuestionLinksAssumption DEF Link

LEMMA NewLinkShape ==
  ASSUME Typed, NEW q \in Questions, NEW o \in Options, NewLink(q, o)
  PROVE  /\ LinksStep(q)
         /\ \E row \in Rows \ Linked(q) :
               /\ links[row] = NULL /\ row \notin LinkedTo(q, o)
               /\ links'[row] # NULL /\ links'[row].option = o
               /\ \A other \in Rows : other # row => links'[other] = links[other]
               /\ Linked(q)' = Linked(q) \cup {row}
               /\ LinkedTo(q, o)' = LinkedTo(q, o) \cup {row}
               /\ \A p \in Options : p # o => LinkedTo(q, p)' = LinkedTo(q, p)
<1> DEFINE link == [question |-> q, option |-> o]
<1>1. link \in Link /\ link # NULL /\ link.question = q /\ link.option = o
  BY LinkTyped
<1>2. PICK row \in Rows :
         /\ links[row] = NULL
         /\ \A r \in Requests : req[r].pc = "delete" => req[r].row # row
         /\ links' = [links EXCEPT ![row] = link]
  BY DEF NewLink
<1> HIDE DEF link
<1>3. /\ links' \in [Rows -> Link \cup {NULL}] /\ links'[row] = link
      /\ \A other \in Rows : other # row => links'[other] = links[other]
  BY <1>1, <1>2 DEF Typed
<1>4. LinksStep(q)
  BY <1>1, <1>2, <1>3 DEF LinksStep
<1>5. row \in Rows \ Linked(q) /\ row \notin LinkedTo(q, o)
  BY <1>2 DEF Linked, LinkedTo
<1>6. Linked(q)' = Linked(q) \cup {row}
  BY <1>1, <1>3, <1>5 DEF Linked
<1>7. LinkedTo(q, o)' = LinkedTo(q, o) \cup {row}
  BY <1>1, <1>3, <1>5, <1>6 DEF LinkedTo, Linked
<1>8. \A p \in Options : p # o => LinkedTo(q, p)' = LinkedTo(q, p)
  BY <1>1, <1>3, <1>5, <1>6 DEF LinkedTo, Linked
<1> QED BY <1>1, <1>2, <1>3, <1>4, <1>5, <1>6, <1>7, <1>8

LEMMA DeletesKept ==
  ASSUME Typed, NEW q \in Questions, LinksStep(q), NEW r \in Requests, req[r].pc = "delete"
  PROVE  links'[req[r].row] = NULL \/ links'[req[r].row].question = req[r].question
  BY DEF Typed, LinksStep, Deletes, Sane

LEMMA NoRequestTyped == NoRequest \in RequestType /\ Sane(NoRequest) /\ NoRequest.pc = "idle"
  BY DEF NoRequest, Request, RequestType, Stages, Sane

\* The slot of request r becomes s, which deletes nothing it did not delete before.
LEMMA MovesTyped ==
  ASSUME Typed, NEW r \in Requests, NEW s \in RequestType, Sane(s),
         s.pc # "delete", req' = [req EXCEPT ![r] = s],
         NEW q \in Questions, LinksStep(q),
         parent' \in [Questions -> Parents \cup {NULL, Omitted}],
         flags' \in [Questions -> [Tests -> BOOLEAN \cup {NULL}]],
         settled' \in [Questions -> BOOLEAN]
  PROVE  Typed'
<1>1. req' \in [Requests -> RequestType] /\ req'[r] = s
  BY DEF Typed
<1>2. ASSUME NEW t \in Requests PROVE Sane(req[t])' /\ Deletes(req[t])'
  <2>1. CASE t = r
    BY <1>1, <2>1 DEF Deletes, Sane, NoRequest, Request
  <2>2. CASE t # r
    <3>1. req'[t] = req[t] /\ Sane(req[t])
      BY <2>2 DEF Typed
    <3> QED BY <3>1, DeletesKept DEF Deletes, Sane, NoRequest, Request
  <2> QED BY <2>1, <2>2
<1> QED BY <1>1, <1>2 DEF Typed, LinksStep

LEMMA EndsTyped ==
  ASSUME Typed, NEW r \in Requests, req[r].pc # "idle",
         req' = [req EXCEPT ![r] = NoRequest], settled' \in [Questions -> BOOLEAN],
         LinksStep(req[r].question),
         parent' \in [Questions -> Parents \cup {NULL, Omitted}],
         flags' \in [Questions -> [Tests -> BOOLEAN \cup {NULL}]]
  PROVE  Typed'
<1>1. req[r].question \in Questions
  BY DEF Typed, Sane
<1> QED BY <1>1, NoRequestTyped, MovesTyped

\* Two requests that are the same but for whether they are alone.
Alike(s, u) ==
    /\ s.pc = u.pc /\ s.question = u.question /\ s.parent = u.parent
    /\ s.option = u.option /\ s.row = u.row /\ s.flag = u.flag /\ s.repairs = u.repairs

LEMMA AlikeSane ==
  ASSUME NEW s \in RequestType, NEW u \in RequestType, Alike(s, u), Sane(u), u.pc # "idle"
  PROVE  Sane(s)
  BY DEF Alike, Sane

LEMMA BeginsShape ==
  ASSUME Typed, NEW r \in Requests, NEW new \in RequestType, Sane(new), new.pc # "idle",
         Begins(r, new)
  PROVE  /\ new.question \in Questions /\ req[r] = NoRequest
         /\ parent[new.question] # Omitted
         /\ req' \in [Requests -> RequestType]
         /\ Alike(req'[r], new) /\ (req'[r].alone <=> ~Busy(new.question))
         /\ \A t \in Requests : t # r =>
               /\ Alike(req'[t], req[t])
               /\ Active(t, new.question) => ~req'[t].alone
               /\ ~Active(t, new.question) => req'[t] = req[t]
         /\ settled' = [settled EXCEPT ![new.question] = @ /\ ~Busy(new.question)]
<1> DEFINE q == new.question
           lone == ~Busy(q)
           mine == [new EXCEPT !.alone = lone]
           Shared(t) == [req[t] EXCEPT !.alone = FALSE]
<1>1. lone \in BOOLEAN
  OBVIOUS
<1>2. /\ req[r] = NoRequest /\ parent[q] # Omitted
      /\ req' = [t \in Requests |-> IF t = r THEN mine
                                    ELSE IF Active(t, q) THEN Shared(t) ELSE req[t]]
      /\ settled' = [settled EXCEPT ![q] = @ /\ ~Busy(q)]
  BY Zenon DEF Begins
<1>3. mine \in RequestType /\ Alike(mine, new) /\ mine.alone = lone
  <2> HIDE DEF lone
  <2> QED BY <1>1 DEF RequestType, Alike
<1>4. \A t \in Requests : Shared(t) \in RequestType /\ Alike(Shared(t), req[t]) /\ ~Shared(t).alone
  BY DEF Typed, RequestType, Alike
<1>5. \A t \in Requests : req[t] \in RequestType /\ Alike(req[t], req[t])
  BY DEF Typed, Alike
<1>6. q \in Questions
  BY DEF Sane
<1> HIDE DEF mine, Shared, lone, q
<1>7. req' \in [Requests -> RequestType]
  BY <1>2, <1>3, <1>4, <1>5
<1>8. req'[r] = mine
  BY <1>2
<1>9. \A t \in Requests : t # r => req'[t] = IF Active(t, q) THEN Shared(t) ELSE req[t]
  BY <1>2
<1>10. \A t \in Requests : t # r =>
          /\ Alike(req'[t], req[t])
          /\ Active(t, q) => ~req'[t].alone
          /\ ~Active(t, q) => req'[t] = req[t]
  BY <1>4, <1>5, <1>9
<1> QED BY <1>2, <1>3, <1>6, <1>7, <1>8, <1>10 DEF q, lone

LEMMA BeginsTyped ==
  ASSUME Typed, NEW r \in Requests, NEW new \in RequestType, Sane(new), new.pc # "idle",
         Deletes(new), Begins(r, new), UNCHANGED <<parent, links, flags>>
  PROVE  Typed'
<1> USE BeginsShape
<1>1. req' \in [Requests -> RequestType] /\ settled' \in [Questions -> BOOLEAN]
  BY DEF Typed
<1>2. ASSUME NEW t \in Requests PROVE Sane(req[t])' /\ Deletes(req[t])'
  <2>1. CASE t = r
    <3>1. Alike(req'[t], new) /\ req'[t] \in RequestType
      BY <1>1, <2>1
    <3>2. Sane(req'[t]) /\ Deletes(req'[t])
      BY <3>1, AlikeSane DEF Deletes, Alike
    <3> QED BY <3>2 DEF Sane, Deletes, NoRequest, Request
  <2>2. CASE t # r /\ req[t].pc # "idle"
    <3>1. Alike(req'[t], req[t]) /\ req'[t] \in RequestType /\ Sane(req[t]) /\ Deletes(req[t])
      BY <1>1, <2>2 DEF Typed
    <3>2. Sane(req'[t]) /\ Deletes(req'[t])
      BY <2>2, <3>1, AlikeSane DEF Typed, Deletes, Alike
    <3> QED BY <3>2 DEF Sane, Deletes, NoRequest, Request
  <2>3. CASE t # r /\ req[t].pc = "idle"
    <3>1. req'[t] = req[t] /\ Sane(req[t]) /\ Deletes(req[t])
      BY <2>3 DEF Active, Typed
    <3> QED BY <3>1 DEF Sane, Deletes, NoRequest, Request
  <2> QED BY <2>1, <2>2, <2>3
<1> QED BY <1>1, <1>2 DEF Typed

\* The requests that may begin.
LEMMA NewRequests ==
  ASSUME Typed, NEW q \in Questions
  PROVE  /\ \A o \in Options :
               LET new == Request("check", q, Omitted, o)
               IN  /\ new \in RequestType /\ Sane(new) /\ Deletes(new)
                   /\ new.pc = "check" /\ new.question = q /\ new.option = o
         /\ \A o \in Options : \A row \in LinkedTo(q, o) :
               LET new == [Request("delete", q, Omitted, o) EXCEPT !.row = row]
               IN  /\ new \in RequestType /\ Sane(new) /\ Deletes(new)
                   /\ new.pc = "delete" /\ new.question = q
         /\ \A p \in Parents \cup {NULL, Omitted}, o \in Options \cup {NULL, Omitted} :
               Permitted(p, o) =>
               LET new == [Request("save", q, p, o) EXCEPT !.flag = p # NULL]
               IN  /\ new \in RequestType /\ Sane(new) /\ Deletes(new)
                   /\ new.pc = "save" /\ new.question = q
<1>1. ASSUME NEW o \in Options
      PROVE  LET new == Request("check", q, Omitted, o)
             IN  /\ new \in RequestType /\ Sane(new) /\ Deletes(new)
                 /\ new.pc = "check" /\ new.question = q /\ new.option = o
  BY DEF Request, RequestType, Stages, Sane, Deletes
<1>2. ASSUME NEW o \in Options, NEW row \in LinkedTo(q, o)
      PROVE  LET new == [Request("delete", q, Omitted, o) EXCEPT !.row = row]
             IN  /\ new \in RequestType /\ Sane(new) /\ Deletes(new)
                 /\ new.pc = "delete" /\ new.question = q
  BY DEF Request, RequestType, Stages, Sane, Deletes, LinkedTo, Linked
<1>3. ASSUME NEW p \in Parents \cup {NULL, Omitted}, NEW o \in Options \cup {NULL, Omitted},
             Permitted(p, o)
      PROVE  LET new == [Request("save", q, p, o) EXCEPT !.flag = p # NULL]
             IN  /\ new \in RequestType /\ Sane(new) /\ Deletes(new)
                 /\ new.pc = "save" /\ new.question = q
  BY <1>3, QuestionLinksAssumption
     DEF Request, RequestType, Stages, Sane, Deletes, Permitted
<1> QED BY <1>1, <1>2, <1>3

-----------------------------------------------------------------------------
(***************************************************************************)
(* What the steps of a request do.                                         *)
(***************************************************************************)
\* Request r goes on as s, which is the same request at another statement.
Onward(r, s) ==
    /\ req' = [req EXCEPT ![r] = s]
    /\ s \in RequestType /\ Sane(s) /\ s.pc \notin {"idle", "delete"}
    /\ s.question = req[r].question /\ s.parent = req[r].parent /\ s.option = req[r].option
    /\ s.alone = req[r].alone /\ s.repairs = req[r].repairs

LEMMA GoesOnward ==
  ASSUME Typed, NEW r \in Requests, req[r].pc # "idle",
         NEW pc \in {"insert", "count", "flag", "unlink"}, Goes(r, pc),
         pc = "insert" => req[r].option \in Options /\ req[r].flag,
         pc = "unlink" => req[r].pc = "save" /\ req[r].option # Omitted,
         pc = "count" => ~req[r].repairs
  PROVE  /\ \E s : /\ Onward(r, s)
                   /\ s.pc = pc /\ s.flag = req[r].flag
         /\ UNCHANGED settled
<1> DEFINE s == [req[r] EXCEPT !.pc = pc]
<1>1. req' = [req EXCEPT ![r] = s] /\ UNCHANGED settled
  BY DEF Goes
<1>2. req[r] \in RequestType /\ Sane(req[r])
  BY DEF Typed
<1>3. /\ s \in RequestType /\ s.pc = pc /\ s.flag = req[r].flag /\ s.row = req[r].row
      /\ s.question = req[r].question /\ s.parent = req[r].parent /\ s.option = req[r].option
      /\ s.alone = req[r].alone /\ s.repairs = req[r].repairs
  BY <1>2 DEF RequestType, Stages
<1> HIDE DEF s
<1>4. Sane(s)
  BY <1>2, <1>3 DEF Sane
<1> QED BY <1>1, <1>3, <1>4 DEF Onward

LEMMA FlagOnward ==
  ASSUME Typed, NEW r \in Requests, req[r].pc # "idle", NEW flag \in BOOLEAN,
         req' = [req EXCEPT ![r].pc = "flag", ![r].flag = flag]
  PROVE  \E s : Onward(r, s) /\ s.pc = "flag" /\ s.flag = flag
<1> DEFINE s == [req[r] EXCEPT !.pc = "flag", !.flag = flag]
<1>2. req[r] \in RequestType /\ Sane(req[r])
  BY DEF Typed
<1>1. req' = [req EXCEPT ![r] = s]
  BY DEF Typed
<1>3. /\ s \in RequestType /\ s.pc = "flag" /\ s.flag = flag /\ s.row = req[r].row
      /\ s.question = req[r].question /\ s.parent = req[r].parent /\ s.option = req[r].option
      /\ s.alone = req[r].alone /\ s.repairs = req[r].repairs
  BY <1>2 DEF RequestType, Stages
<1> HIDE DEF s
<1>4. Sane(s)
  BY <1>2, <1>3 DEF Sane
<1> QED BY <1>1, <1>3, <1>4 DEF Onward

LEMMA OnwardTyped ==
  ASSUME Typed, NEW r \in Requests, NEW s, Onward(r, s), req[r].pc # "idle",
         LinksStep(req[r].question),
         parent' \in [Questions -> Parents \cup {NULL, Omitted}], UNCHANGED flags,
         settled' \in [Questions -> BOOLEAN]
  PROVE  Typed'
<1>1. req[r].question \in Questions /\ s \in RequestType /\ Sane(s) /\ s.pc # "delete"
  BY DEF Typed, Sane, Onward
<1>2. flags' \in [Questions -> [Tests -> BOOLEAN \cup {NULL}]]
  BY DEF Typed
<1> QED BY <1>1, <1>2, MovesTyped DEF Onward

\* Whoever is at a statement has a question.
LEMMA HasQuestion ==
  ASSUME Typed, NEW r \in Requests, req[r].pc # "idle"
  PROVE  req[r].question \in Questions /\ Active(r, req[r].question)
  BY DEF Typed, Sane, Active

LEMMA EndsSettled ==
  ASSUME Typed, NEW r \in Requests, req[r].pc # "idle", Ends(r)
  PROVE  /\ req' = [req EXCEPT ![r] = NoRequest]
         /\ settled' = [settled EXCEPT ![req[r].question] = @ \/ (req[r].alone /\ req[r].repairs)]
         /\ settled' \in [Questions -> BOOLEAN]
<1>1. settled[req[r].question] \/ (req[r].alone /\ req[r].repairs) \in BOOLEAN
  BY HasQuestion DEF Typed, RequestType
<1> QED BY <1>1, HasQuestion DEF Ends, Typed

LEMMA CheckShape ==
  ASSUME Typed, NEW r \in Requests, AssociateCheck(r)
  PROVE  /\ req[r].pc = "check" /\ UNCHANGED <<parent, links, flags>>
         /\ req[r].option \in Options
         /\ \/ /\ LinkedTo(req[r].question, req[r].option) = {} /\ UNCHANGED settled
               /\ \E s : Onward(r, s) /\ s.pc = "insert" /\ s.flag
            \/ Ends(r)
<1>1. /\ req[r].pc = "check" /\ UNCHANGED <<parent, links, flags>>
      /\ req[r].option \in Options /\ req[r].flag
  BY DEF AssociateCheck, Typed, Sane
<1>2. CASE LinkedTo(req[r].question, req[r].option) = {} /\ Goes(r, "insert")
  BY <1>1, <1>2, GoesOnward
<1> QED BY <1>1, <1>2 DEF AssociateCheck

LEMMA InsertShape ==
  ASSUME Typed, NEW r \in Requests, InsertLink(r)
  PROVE  /\ req[r].pc = "insert" /\ UNCHANGED <<parent, flags, settled>>
         /\ req[r].option \in Options /\ NewLink(req[r].question, req[r].option)
         /\ \E s : Onward(r, s) /\ s.pc = "flag" /\ s.flag
<1>1. /\ req[r].pc = "insert" /\ UNCHANGED <<parent, flags>>
      /\ req[r].option \in Options /\ req[r].flag
      /\ NewLink(req[r].question, req[r].option) /\ Goes(r, "flag")
  BY DEF InsertLink, Typed, Sane
<1> QED BY <1>1, GoesOnward

LEMMA DeleteShape ==
  ASSUME Typed, NEW r \in Requests, DisassociateDelete(r)
  PROVE  /\ req[r].pc = "delete" /\ UNCHANGED <<parent, flags, settled>>
         /\ LinksStep(req[r].question) /\ \A row \in Rows : links'[row] \in {links[row], NULL}
         /\ \E s : Onward(r, s) /\ s.pc = "count"
<1>1. /\ req[r].pc = "delete" /\ UNCHANGED <<parent, flags>> /\ Goes(r, "count")
      /\ links' = [links EXCEPT ![req[r].row] = NULL]
      /\ Sane(req[r]) /\ Deletes(req[r])
  BY DEF DisassociateDelete, Typed
<1>2. req[r].row \in Rows /\ ~req[r].repairs
  BY <1>1 DEF Sane
<1>3. LinksStep(req[r].question) /\ \A row \in Rows : links'[row] \in {links[row], NULL}
  BY <1>1, <1>2 DEF LinksStep, Deletes, Linked, Typed
<1>4. \E s : Onward(r, s) /\ s.pc = "count"
  BY <1>1, <1>2, GoesOnward
<1>5. UNCHANGED settled
  BY <1>1 DEF Goes
<1> QED BY <1>1, <1>3, <1>4, <1>5

LEMMA CountShape ==
  ASSUME Typed, NEW r \in Requests, DisassociateCount(r)
  PROVE  /\ req[r].pc = "count" /\ UNCHANGED <<parent, links, flags, settled>>
         /\ \E s : Onward(r, s) /\ s.pc = "flag" /\ s.flag = (Linked(req[r].question) # {})
<1> DEFINE flag == Linked(req[r].question) # {}
<1>1. flag \in BOOLEAN
  OBVIOUS
<1>2. /\ req[r].pc = "count" /\ UNCHANGED <<parent, links, flags, settled>>
      /\ req' = [req EXCEPT ![r].pc = "flag", ![r].flag = flag]
  BY DEF DisassociateCount
<1> HIDE DEF flag
<1>3. \E s : Onward(r, s) /\ s.pc = "flag" /\ s.flag = flag
  BY <1>1, <1>2, FlagOnward
<1> QED BY <1>2, <1>3 DEF flag

LEMMA SaveShape ==
  ASSUME Typed, NEW r \in Requests, UpdateSave(r)
  PROVE  LET q == req[r].question
         IN  /\ req[r].pc = "save" /\ UNCHANGED <<links, flags>>
             /\ parent' \in [Questions -> Parents \cup {NULL, Omitted}]
             /\ \A k \in Questions : k # q => parent'[k] = parent[k]
             /\ parent'[q] = IF req[r].parent = Omitted THEN parent[q] ELSE req[r].parent
             /\ \/ /\ req[r].option # Omitted /\ UNCHANGED settled
                   /\ \E s : Onward(r, s) /\ s.pc = "unlink"
                \/ /\ req[r].option = Omitted /\ req[r].parent # Omitted
                   /\ \E s : Onward(r, s) /\ s.pc = "flag" /\ s.flag = (req[r].parent # NULL)
                   /\ settled' = [settled EXCEPT ![q] = @ /\ Linked(q) = {}]
                \/ req[r].option = Omitted /\ req[r].parent = Omitted /\ Ends(r)
<1> DEFINE q == req[r].question
           u == req[r]
<1>1. /\ u.pc = "save" /\ UNCHANGED <<links, flags>>
      /\ parent' = [parent EXCEPT ![q] = IF u.parent = Omitted THEN @ ELSE u.parent]
      /\ CASE u.option # Omitted -> Goes(r, "unlink")
           [] u.option = Omitted /\ u.parent # Omitted -> Reparents(r)
           [] OTHER -> Ends(r)
  BY DEF UpdateSave
<1>2. /\ u \in RequestType /\ q \in Questions /\ u.flag = (u.parent # NULL)
  BY <1>1 DEF Typed, Sane
<1>3. /\ parent' \in [Questions -> Parents \cup {NULL, Omitted}]
      /\ \A k \in Questions : k # q => parent'[k] = parent[k]
      /\ parent'[q] = IF u.parent = Omitted THEN parent[q] ELSE u.parent
  BY <1>1, <1>2 DEF Typed, RequestType
<1>4. CASE u.option # Omitted /\ Goes(r, "unlink")
  BY <1>1, <1>3, <1>4, GoesOnward
<1>5. CASE u.option = Omitted /\ u.parent # Omitted /\ Reparents(r)
  <2>1. /\ req' = [req EXCEPT ![r].pc = "flag"]
        /\ settled' = [settled EXCEPT ![q] = @ /\ Linked(q) = {}]
    BY <1>5 DEF Reparents
  <2>2. req' = [req EXCEPT ![r].pc = "flag", ![r].flag = u.flag]
    BY <1>2, <2>1 DEF Typed, RequestType
  <2>3. \E s : Onward(r, s) /\ s.pc = "flag" /\ s.flag = u.flag
    BY <1>1, <1>2, <2>2, FlagOnward DEF RequestType
  <2> QED BY <1>1, <1>2, <1>3, <1>5, <2>1, <2>3
<1>6. CASE u.option = Omitted /\ u.parent = Omitted /\ Ends(r)
  BY <1>1, <1>3, <1>6
<1> QED BY <1>1, <1>4, <1>5, <1>6

LEMMA UnlinkShape ==
  ASSUME Typed, NEW r \in Requests, UpdateUnlink(r), NEW q, q = req[r].question
  PROVE  /\ req[r].pc = "unlink" /\ UNCHANGED <<parent, flags>>
         /\ LinksStep(q) /\ Linked(q)' = {}
         /\ \A row \in Rows : links'[row] \in {links[row], NULL}
         /\ \/ /\ req[r].option \in Options /\ UNCHANGED settled
               /\ \E s : Onward(r, s) /\ s.pc = "insert" /\ s.flag
            \/ /\ req[r].option = NULL /\ req[r].parent # Omitted /\ UNCHANGED settled
               /\ \E s : Onward(r, s) /\ s.pc = "flag" /\ s.flag = (req[r].parent # NULL)
            \/ req[r].option = NULL /\ req[r].parent = Omitted /\ Ends(r)
<1> DEFINE u == req[r]
<1>1. /\ u.pc = "unlink" /\ UNCHANGED <<parent, flags>>
      /\ links' = [row \in Rows |-> IF row \in Linked(q) THEN NULL ELSE links[row]]
      /\ CASE u.option # NULL -> Goes(r, "insert")
           [] u.option = NULL /\ u.parent # Omitted -> Goes(r, "flag")
           [] OTHER -> Ends(r)
  BY DEF UpdateUnlink
<1>2. /\ u \in RequestType /\ u.option # Omitted /\ u.flag = (u.parent # NULL)
      /\ u.option \in Options => u.parent \in Parents
  BY <1>1 DEF Typed, Sane
<1>3. /\ LinksStep(q) /\ Linked(q)' = {}
      /\ \A row \in Rows : links'[row] \in {links[row], NULL}
  BY <1>1 DEF Typed, LinksStep, Linked
<1>4. CASE u.option # NULL /\ Goes(r, "insert")
  <2>1. u.option \in Options /\ u.flag
    BY <1>2, <1>4, QuestionLinksAssumption DEF RequestType
  <2> QED BY <1>1, <1>3, <1>4, <2>1, GoesOnward
<1>5. CASE u.option = NULL /\ u.parent # Omitted /\ Goes(r, "flag")
  BY <1>1, <1>2, <1>3, <1>5, GoesOnward
<1>6. CASE u.option = NULL /\ u.parent = Omitted /\ Ends(r)
  BY <1>1, <1>3, <1>6
<1> QED BY <1>1, <1>4, <1>5, <1>6

LEMMA SetFlagShape ==
  ASSUME Typed, NEW r \in Requests, SetFlag(r), NEW q, q = req[r].question
  PROVE  /\ req[r].pc = "flag" /\ UNCHANGED <<parent, links>> /\ Ends(r)
         /\ flags' \in [Questions -> [Tests -> BOOLEAN \cup {NULL}]]
         /\ \A k \in Questions : k # q => flags'[k] = flags[k]
         /\ \A t \in Tests : flags'[q][t] # NULL => flags'[q][t] = req[r].flag
<1>1. /\ req[r].pc = "flag" /\ UNCHANGED <<parent, links>> /\ Ends(r)
      /\ flags' = [flags EXCEPT ![q] = Flagged(q, req[r].flag)]
  BY DEF SetFlag
<1>2. q \in Questions /\ req[r].flag \in BOOLEAN
  BY <1>1, HasQuestion DEF Typed, RequestType
<1> DEFINE new == Flagged(q, req[r].flag)
<1>3. /\ new \in [Tests -> BOOLEAN \cup {NULL}]
      /\ \A t \in Tests : new[t] # NULL => new[t] = req[r].flag
  BY <1>2 DEF Flagged
<1> HIDE DEF new
<1> QED BY <1>1, <1>2, <1>3 DEF new, Typed

LEMMA FailsShape ==
  ASSUME Typed, NEW r \in Requests, Fails(r)
  PROVE  /\ req[r].pc # "idle" /\ UNCHANGED <<parent, links, flags>>
         /\ req' = [req EXCEPT ![r] = NoRequest]
         /\ settled' \in [Questions -> BOOLEAN]
         /\ settled' = [settled EXCEPT ![req[r].question] =
                           @ /\ req[r].pc \in {"check", "delete", "save"}]
  BY DEF Fails, Typed, Sane

LEMMA CreateShape ==
  ASSUME Typed, NEW q \in Questions, NEW p \in Parents \cup {NULL},
         NEW o \in Options \cup {NULL}, NEW In \in SUBSET Tests, Create(q, p, o, In)
  PROVE  /\ parent[q] = Omitted /\ parent' = [parent EXCEPT ![q] = p]
         /\ UNCHANGED <<req, settled>> /\ LinksStep(q)
         /\ \/ o = NULL /\ UNCHANGED links
            \/ o \in Options /\ p \in Parents /\ OwnerOf[o] = p /\ NewLink(q, o)
         /\ flags' \in [Questions -> [Tests -> BOOLEAN \cup {NULL}]]
         /\ \A k \in Questions : k # q => flags'[k] = flags[k]
         /\ \A t \in Tests : flags'[q][t] # NULL => flags'[q][t] = (p # NULL)
<1>1. /\ parent[q] = Omitted /\ parent' = [parent EXCEPT ![q] = p]
      /\ UNCHANGED <<req, settled>>
      /\ IF o = NULL THEN UNCHANGED links ELSE NewLink(q, o)
      /\ Permitted(p, o)
  BY DEF Create
<1>2. \/ o = NULL /\ UNCHANGED links
      \/ o \in Options /\ p \in Parents /\ OwnerOf[o] = p /\ NewLink(q, o)
  BY <1>1, QuestionLinksAssumption DEF Permitted
<1>3. LinksStep(q)
  BY <1>2, SameLinks, NewLinkShape
<1> DEFINE new == [t \in Tests |-> IF t \in In THEN p # NULL ELSE NULL]
<1>4. flags' = [flags EXCEPT ![q] = new]
  BY DEF Create
<1>5. /\ new \in [Tests -> BOOLEAN \cup {NULL}]
      /\ \A t \in Tests : new[t] # NULL => new[t] = (p # NULL)
  OBVIOUS
<1> HIDE DEF new
<1>6. /\ flags' \in [Questions -> [Tests -> BOOLEAN \cup {NULL}]]
      /\ \A k \in Questions : k # q => flags'[k] = flags[k]
      /\ \A t \in Tests : flags'[q][t] # NULL => flags'[q][t] = (p # NULL)
  BY <1>4, <1>5 DEF Typed
<1> QED BY <1>1, <1>2, <1>3, <1>6

LEMMA AddShape ==
  ASSUME Typed, NEW q \in Questions, NEW t \in Tests, AddQuestionToTest(q, t)
  PROVE  /\ parent[q] # Omitted /\ UNCHANGED <<parent, links, req>>
         /\ flags' \in [Questions -> [Tests -> BOOLEAN \cup {NULL}]]
         /\ \A k \in Questions : k # q => flags'[k] = flags[k]
         /\ \A u \in Tests : u # t => flags'[q][u] = flags[q][u]
         /\ flags'[q][t] = FALSE
         /\ settled' \in [Questions -> BOOLEAN]
         /\ settled' = [settled EXCEPT ![q] = @ /\ Linked(q) = {}]
  BY DEF AddQuestionToTest, Typed

LEMMA TypedInit == Init => Typed
  BY NoRequestTyped DEF Init, Typed, Deletes

LEMMA TypedStep == Typed /\ [Next]_vars => Typed'
<1> SUFFICES ASSUME Typed, [Next]_vars PROVE Typed'
  OBVIOUS
<1> USE SameLinks
<1>1. ASSUME UNCHANGED <<links, req>>,
             parent' \in [Questions -> Parents \cup {NULL, Omitted}],
             flags' \in [Questions -> [Tests -> BOOLEAN \cup {NULL}]],
             settled' \in [Questions -> BOOLEAN]
      PROVE  Typed'
  BY <1>1 DEF Typed, Sane, Deletes, NoRequest, Request
<1>2. /\ parent \in [Questions -> Parents \cup {NULL, Omitted}]
      /\ flags \in [Questions -> [Tests -> BOOLEAN \cup {NULL}]]
      /\ settled \in [Questions -> BOOLEAN]
  BY DEF Typed
<1>3. ASSUME NEW q \in Questions, NEW p \in Parents \cup {NULL}, NEW o \in Options \cup {NULL},
             NEW In \in SUBSET Tests, Create(q, p, o, In)
      PROVE  Typed'
  <2>3. /\ UNCHANGED <<req, settled>> /\ LinksStep(q)
        /\ parent' = [parent EXCEPT ![q] = p]
        /\ flags' \in [Questions -> [Tests -> BOOLEAN \cup {NULL}]]
    BY <1>3, CreateShape
  <2>1. /\ UNCHANGED <<req, settled>> /\ LinksStep(q)
        /\ parent' \in [Questions -> Parents \cup {NULL, Omitted}]
        /\ flags' \in [Questions -> [Tests -> BOOLEAN \cup {NULL}]]
    BY <1>2, <2>3
  <2>2. ASSUME NEW r \in Requests PROVE Sane(req[r])' /\ Deletes(req[r])'
    <3>1. req'[r] = req[r] /\ Sane(req[r])
      BY <2>1 DEF Typed
    <3> QED BY <2>1, <3>1, DeletesKept DEF Deletes, Sane, NoRequest, Request
  <2> QED BY <1>2, <2>1, <2>2 DEF Typed, LinksStep
<1>4. ASSUME NEW q \in Questions, NEW t \in Tests, AddQuestionToTest(q, t) PROVE Typed'
  BY <1>1, <1>2, <1>4, AddShape
<1>5. ASSUME NEW r \in Requests, NEW q \in Questions, NEW o \in Options, Associate(r, q, o)
      PROVE  Typed'
  <2> DEFINE new == Request("check", q, Omitted, o)
  <2>1. Begins(r, new) /\ UNCHANGED <<parent, links, flags>>
    BY <1>5 DEF Associate
  <2>2. new \in RequestType /\ Sane(new) /\ Deletes(new) /\ new.pc # "idle"
    BY NewRequests
  <2> HIDE DEF new
  <2> QED BY <2>1, <2>2, BeginsTyped
<1>6. ASSUME NEW r \in Requests, NEW q \in Questions, NEW o \in Options, Disassociate(r, q, o)
      PROVE  Typed'
  <2>1. PICK row \in LinkedTo(q, o) :
           Begins(r, [Request("delete", q, Omitted, o) EXCEPT !.row = row])
    BY <1>6 DEF Disassociate
  <2> DEFINE new == [Request("delete", q, Omitted, o) EXCEPT !.row = row]
  <2>2. Begins(r, new) /\ UNCHANGED <<parent, links, flags>>
    BY <1>6, <2>1 DEF Disassociate
  <2>3. new \in RequestType /\ Sane(new) /\ Deletes(new) /\ new.pc # "idle"
    BY NewRequests
  <2> HIDE DEF new
  <2> QED BY <2>2, <2>3, BeginsTyped
<1>7. ASSUME NEW r \in Requests, NEW q \in Questions, NEW p \in Parents \cup {NULL, Omitted},
             NEW o \in Options \cup {NULL, Omitted}, Update(r, q, p, o)
      PROVE  Typed'
  <2> DEFINE new == [Request("save", q, p, o) EXCEPT !.flag = p # NULL]
  <2>1. Begins(r, new) /\ UNCHANGED <<parent, links, flags>> /\ Permitted(p, o)
    BY <1>7 DEF Update
  <2>2. new \in RequestType /\ Sane(new) /\ Deletes(new) /\ new.pc # "idle"
    BY <2>1, NewRequests
  <2> HIDE DEF new
  <2> QED BY <2>1, <2>2, BeginsTyped
<1>8. ASSUME NEW r \in Requests, AssociateCheck(r) \/ InsertLink(r) PROVE Typed'
  <2>1. CASE AssociateCheck(r)
    BY <1>2, <2>1, CheckShape, HasQuestion, EndsSettled, EndsTyped, OnwardTyped
  <2>2. CASE InsertLink(r)
    BY <1>2, <2>2, InsertShape, HasQuestion, NewLinkShape, OnwardTyped
  <2> QED BY <1>8, <2>1, <2>2
<1>9. ASSUME NEW r \in Requests, DisassociateDelete(r) \/ DisassociateCount(r) PROVE Typed'
  BY <1>2, <1>9, DeleteShape, CountShape, HasQuestion, OnwardTyped
<1>10. ASSUME NEW r \in Requests, UpdateSave(r) PROVE Typed'
  <2>1. /\ req[r].question \in Questions /\ req[r].pc # "idle"
        /\ UNCHANGED <<links, flags>>
        /\ parent' \in [Questions -> Parents \cup {NULL, Omitted}]
    BY <1>10, SaveShape, HasQuestion
  <2>2. CASE UNCHANGED settled /\ \E s : Onward(r, s)
    BY <1>2, <2>1, <2>2, OnwardTyped
  <2>3. CASE /\ \E s : Onward(r, s)
             /\ settled' = [settled EXCEPT ![req[r].question] = @ /\ Linked(req[r].question) = {}]
    BY <1>2, <2>1, <2>3, OnwardTyped
  <2>4. CASE Ends(r)
    BY <1>2, <2>1, <2>4, EndsSettled, EndsTyped
  <2> QED BY <1>10, <2>2, <2>3, <2>4, SaveShape
<1>11. ASSUME NEW r \in Requests, UpdateUnlink(r) PROVE Typed'
  <2>1. /\ req[r].question \in Questions /\ req[r].pc # "idle"
        /\ UNCHANGED <<parent, flags>> /\ LinksStep(req[r].question)
    BY <1>11, UnlinkShape, HasQuestion
  <2>2. CASE UNCHANGED settled /\ \E s : Onward(r, s)
    BY <1>2, <2>1, <2>2, OnwardTyped
  <2>3. CASE Ends(r)
    BY <1>2, <2>1, <2>3, EndsSettled, EndsTyped
  <2> QED BY <1>11, <2>2, <2>3, UnlinkShape
<1>12. ASSUME NEW r \in Requests, SetFlag(r) \/ Fails(r) PROVE Typed'
  <2>1. CASE SetFlag(r)
    BY <1>2, <2>1, SetFlagShape, HasQuestion, EndsSettled, EndsTyped
  <2>2. CASE Fails(r)
    BY <1>2, <2>2, FailsShape, HasQuestion, EndsTyped
  <2> QED BY <1>12, <2>1, <2>2
<1>13. CASE UNCHANGED vars
  BY <1>1, <1>2, <1>13 DEF vars
<1> QED BY <1>3, <1>4, <1>5, <1>6, <1>7, <1>8, <1>9, <1>10, <1>11, <1>12, <1>13 DEF Next

\* Every request in flight stays one its handler can have: it links only to an option
\* of the parent it gives, and deletes no row of another question.
THEOREM AlwaysTyped == Spec => []Typed
  BY TypedInit, TypedStep, PTL DEF Spec

\* Rows, flags and requests keep their types, and nothing is linked to an option of a
\* parent that was not given with it.
THEOREM TypeCorrect == Spec => []TypeOK
<1>1. Typed => TypeOK
  BY DEF Typed, TypeOK, Sane, RequestType, Stages
<1> QED BY <1>1, AlwaysTyped, PTL

-----------------------------------------------------------------------------
(***************************************************************************)
(* One question at a time: what a step leaves of the questions it is not   *)
(* about, and what is left to show of the one it is about.                 *)
(***************************************************************************)
Same(k) ==
    /\ parent'[k] = parent[k] /\ flags'[k] = flags[k] /\ settled'[k] = settled[k]
    /\ Linked(k)' = Linked(k) /\ \A row \in Linked(k) : links'[row] = links[row]
    /\ \A t \in Requests : /\ Active(t, k)' <=> Active(t, k)
                           /\ Active(t, k) => req'[t] = req[t]

LEMMA SameKept ==
  ASSUME Typed, NEW k \in Questions, Same(k), QuestionInv(k)
  PROVE  QuestionInv(k)'
<1>1. \A o : LinkedTo(k, o)' = LinkedTo(k, o)
  BY DEF Same, LinkedTo
<1>2. Proper(k)' <=> Proper(k)
  BY <1>1 DEF Same, Proper
<1>3. (Parented(k)' <=> Parented(k)) /\ (Marked(k)' <=> Marked(k))
  BY DEF Same, Parented, Marked
<1>4. Busy(k)' <=> Busy(k)
  BY DEF Same, Busy
<1>5. \A s : (Steady(s, k)' <=> Steady(s, k)) /\ (Heading(s, k)' <=> Heading(s, k))
  BY <1>1, <1>2, <1>3 DEF Same, Steady, Heading
<1>6. ASSUME NEW r \in Requests PROVE Handled(r, k)'
  <2>1. SUFFICES ASSUME NEW s \in RequestType, s = req'[r], Active(r, k)', s.alone
                 PROVE  /\ settled'[k] => Steady(s, k)'
                        /\ settled'[k] \/ s.repairs => Heading(s, k)'
    BY DEF Handled
  <2>2. Active(r, k) /\ s = req[r] /\ settled'[k] = settled[k]
    BY <2>1 DEF Same
  <2>3. Handled(r, k)
    BY Zenon DEF QuestionInv
  <2> QED BY <1>5, <2>1, <2>2, <2>3 DEF Handled
<1> QED BY <1>2, <1>3, <1>4, <1>6 DEF Same, QuestionInv

LEMMA OtherLinks ==
  ASSUME NEW q \in Questions, NEW k \in Questions, k # q, LinksStep(q)
  PROVE  Linked(k)' = Linked(k) /\ \A row \in Linked(k) : links'[row] = links[row]
<1>1. \A row \in Rows : (row \in Linked(k)' <=> row \in Linked(k))
                        /\ (row \in Linked(k) => links'[row] = links[row])
  BY DEF LinksStep, Linked
<1>2. Linked(k)' = {row \in Rows : row \in Linked(k)'} /\ Linked(k) \subseteq Rows
  BY DEF Linked
<1> QED BY <1>1, <1>2

LEMMA OthersSame ==
  ASSUME Typed, NEW r \in Requests, req[r].pc # "idle", NEW q, q = req[r].question,
         NEW s, req' = [req EXCEPT ![r] = s], s = NoRequest \/ s.question = q,
         LinksStep(q), NEW k \in Questions, k # q,
         parent'[k] = parent[k], flags'[k] = flags[k], settled'[k] = settled[k]
  PROVE  Same(k)
<1>1. q \in Questions
  BY HasQuestion
<1>2. Linked(k)' = Linked(k) /\ \A row \in Linked(k) : links'[row] = links[row]
  BY <1>1, OtherLinks
<1>3. ASSUME NEW t \in Requests
      PROVE  (Active(t, k)' <=> Active(t, k)) /\ (Active(t, k) => req'[t] = req[t])
  <2>1. CASE t = r
    BY <2>1, NoRequestTyped DEF Typed, Active
  <2>2. CASE t # r
    BY <2>2 DEF Typed, Active
  <2> QED BY <2>1, <2>2
<1> QED BY <1>2, <1>3 DEF Same

\* A request goes on.
LEMMA Proceeds ==
  ASSUME Typed, NEW r \in Requests, req[r].pc # "idle", NEW q, q = req[r].question,
         QuestionInv(q), NEW s, Onward(r, s),
         parent'[q] # Omitted, settled'[q] => settled[q],
         s.alone /\ settled'[q] => Steady(s, q)',
         s.alone /\ (settled'[q] \/ s.repairs) => Heading(s, q)'
  PROVE  QuestionInv(q)'
<1>1. Active(r, q) /\ req'[r] = s /\ s.alone = req[r].alone
  BY HasQuestion DEF Onward, Typed
<1>2. \A t \in Requests : t # r => req'[t] = req[t]
  BY DEF Onward, Typed
<1>3. \A t \in Requests : (Active(t, q)' <=> Active(t, q)) /\ req'[t].alone = req[t].alone
  BY <1>1, <1>2 DEF Onward, Active
<1>4. Busy(q)'
  BY <1>1, <1>3 DEF Busy
<1>5. /\ \A u, t \in Requests : Active(u, q) /\ Active(t, q) /\ req[u].alone => u = t
      /\ settled[q] => \A t \in Requests : Active(t, q) => req[t].alone
  BY DEF QuestionInv
<1>6. ASSUME NEW t \in Requests PROVE Handled(t, q)'
  <2>1. SUFFICES ASSUME NEW u \in RequestType, u = req'[t], Active(t, q)', u.alone
                 PROVE  /\ settled'[q] => Steady(u, q)'
                        /\ settled'[q] \/ u.repairs => Heading(u, q)'
    BY DEF Handled
  <2>2. t = r /\ u = s
    BY <1>1, <1>3, <1>5, <2>1
  <2> QED BY <2>1, <2>2
<1>7. /\ \A u, t \in Requests : Active(u, q)' /\ Active(t, q)' /\ req'[u].alone => u = t
      /\ settled'[q] => \A t \in Requests : Active(t, q)' => req'[t].alone
  BY <1>3, <1>5
<1> QED BY <1>4, <1>6, <1>7 DEF QuestionInv

\* A request ends, or fails.
LEMMA Finishes ==
  ASSUME Typed, NEW r \in Requests, req[r].pc # "idle", NEW q, q = req[r].question,
         QuestionInv(q), req' = [req EXCEPT ![r] = NoRequest], parent'[q] # Omitted,
         settled'[q] => settled[q] \/ req[r].alone,
         settled'[q] /\ req[r].alone => Proper(q)' /\ Marked(q)'
  PROVE  QuestionInv(q)'
<1>1. Active(r, q) /\ ~Active(r, q)'
  BY HasQuestion, NoRequestTyped DEF Typed, Active
<1>2. \A t \in Requests : t # r => req'[t] = req[t] /\ (Active(t, q)' <=> Active(t, q))
  BY DEF Typed, Active
<1>3. /\ \A u, t \in Requests : Active(u, q) /\ Active(t, q) /\ req[u].alone => u = t
      /\ settled[q] => \A t \in Requests : Active(t, q) => req[t].alone
  BY DEF QuestionInv
<1>4. \A t \in Requests : Active(t, q)' => ~req'[t].alone /\ ~settled'[q]
  BY <1>1, <1>2, <1>3
<1>5. settled'[q] => Proper(q)' /\ Marked(q)'
  BY <1>1, <1>3
<1>6. \A t \in Requests : Handled(t, q)'
  BY <1>4 DEF Handled
<1> QED BY <1>4, <1>5, <1>6 DEF QuestionInv

\* What a request may rely on that is alone.
LEMMA AloneFacts ==
  ASSUME Typed, NEW r \in Requests, req[r].pc # "idle", NEW q, q = req[r].question,
         QuestionInv(q)
  PROVE  /\ q \in Questions /\ parent[q] # Omitted
         /\ settled[q] => req[r].alone
         /\ req[r].alone /\ settled[q] => Steady(req[r], q)
         /\ req[r].alone /\ (settled[q] \/ req[r].repairs) => Heading(req[r], q)
<1>1. Active(r, q) /\ q \in Questions
  BY HasQuestion
<1>2. req[r] \in RequestType /\ Busy(q) /\ Handled(r, q)
  BY <1>1 DEF Typed, Busy, QuestionInv
<1> DEFINE s == req[r]
<1>3. s.alone => (settled[q] => Steady(s, q)) /\ (settled[q] \/ s.repairs => Heading(s, q))
  <2> HIDE DEF s
  <2>1. s \in RequestType /\ s = req[r]
    BY <1>2 DEF s
  <2> QED BY <1>1, <1>2, <2>1 DEF Handled
<1>4. settled[q] => req[r].alone
  BY <1>1 DEF QuestionInv
<1>5. parent[q] # Omitted
  BY <1>2 DEF QuestionInv
<1> QED BY <1>1, <1>3, <1>4, <1>5

\* Deleting links spoils none that stay.
LEMMA DeletionKeeps ==
  ASSUME NEW q \in Questions, UNCHANGED <<parent, flags>>,
         \A row \in Rows : links'[row] \in {links[row], NULL}
  PROVE  /\ Proper(q) => Proper(q)'
         /\ Parented(q)' <=> Parented(q)
         /\ Marked(q) => Marked(q)'
<1>1. Linked(q)' \subseteq Linked(q) /\ \A row \in Linked(q)' : links'[row] = links[row]
  BY DEF Linked
<1>2. Proper(q) => Proper(q)'
  BY <1>1 DEF Proper
<1> QED BY <1>1, <1>2 DEF Parented, Marked

LEMMA OnwardKeeps ==
  ASSUME Typed, LinksInv, NEW r \in Requests, req[r].pc # "idle", NEW q, q = req[r].question,
         NEW s, Onward(r, s), LinksStep(q),
         \A k \in Questions : k # q =>
            parent'[k] = parent[k] /\ flags'[k] = flags[k] /\ settled'[k] = settled[k],
         parent'[q] # Omitted, settled'[q] => settled[q],
         s.alone /\ settled'[q] => Steady(s, q)',
         s.alone /\ (settled'[q] \/ s.repairs) => Heading(s, q)'
  PROVE  LinksInv'
<1>1. q \in Questions
  BY HasQuestion
<1>2. req' = [req EXCEPT ![r] = s] /\ s.question = q
  BY DEF Onward
<1>3. ASSUME NEW k \in Questions, k # q PROVE QuestionInv(k)'
  <2>1. Same(k)
    BY <1>2, <1>3, OthersSame
  <2> QED BY <2>1, SameKept DEF LinksInv
<1>4. QuestionInv(q)'
  BY <1>1, Proceeds DEF LinksInv
<1> QED BY <1>3, <1>4 DEF LinksInv

LEMMA EndsKeeps ==
  ASSUME Typed, LinksInv, NEW r \in Requests, req[r].pc # "idle", NEW q, q = req[r].question,
         req' = [req EXCEPT ![r] = NoRequest], LinksStep(q),
         \A k \in Questions : k # q =>
            parent'[k] = parent[k] /\ flags'[k] = flags[k] /\ settled'[k] = settled[k],
         parent'[q] # Omitted,
         settled'[q] => settled[q] \/ req[r].alone,
         settled'[q] /\ req[r].alone => Proper(q)' /\ Marked(q)'
  PROVE  LinksInv'
<1>1. q \in Questions
  BY HasQuestion
<1>2. ASSUME NEW k \in Questions, k # q PROVE QuestionInv(k)'
  <2>1. Same(k)
    BY <1>2, OthersSame
  <2> QED BY <2>1, SameKept DEF LinksInv
<1>3. QuestionInv(q)'
  BY <1>1, Finishes DEF LinksInv
<1> QED BY <1>2, <1>3 DEF LinksInv

\* An end settles a question only if it was settled, or is put right.
LEMMA EndsFrame ==
  ASSUME Typed, NEW r \in Requests, req[r].pc # "idle", NEW q, q = req[r].question, Ends(r)
  PROVE  /\ req' = [req EXCEPT ![r] = NoRequest]
         /\ \A k \in Questions : k # q => settled'[k] = settled[k]
         /\ settled'[q] => settled[q] \/ (req[r].alone /\ req[r].repairs)
<1>1. q \in Questions
  BY HasQuestion
<1> QED BY <1>1, EndsSettled DEF Typed

LEMMA CheckKeeps ==
  ASSUME Typed, LinksInv, NEW r \in Requests, AssociateCheck(r), NEW q, q = req[r].question
  PROVE  LinksInv'
<1>1. /\ req[r].pc = "check" /\ UNCHANGED <<parent, links, flags>>
      /\ req[r].option \in Options /\ q \in Questions /\ ~req[r].repairs
  BY CheckShape, HasQuestion DEF Typed, Sane
<1>2. /\ parent[q] # Omitted /\ (settled[q] => req[r].alone)
      /\ req[r].alone /\ settled[q] =>
            Proper(q) /\ Marked(q) /\ OwnerOf[req[r].option] = parent[q]
  <2>1. QuestionInv(q)
    BY <1>1 DEF LinksInv
  <2> QED BY <1>1, <2>1, AloneFacts DEF Steady
<1>3. LinksStep(q) /\ (Proper(q)' <=> Proper(q)) /\ (Marked(q)' <=> Marked(q))
  BY <1>1, SameLinks DEF Proper, Marked, Parented, Linked
<1>4. CASE /\ LinkedTo(q, req[r].option) = {} /\ UNCHANGED settled
           /\ \E s : Onward(r, s) /\ s.pc = "insert" /\ s.flag
  <2>1. PICK s : Onward(r, s) /\ s.pc = "insert" /\ s.flag
    BY <1>4
  <2>2. s.alone = req[r].alone /\ s.option = req[r].option /\ ~s.repairs
    BY <1>1, <2>1 DEF Onward
  <2>3. LinkedTo(q, s.option)' = {}
    BY <1>1, <1>4, <2>2 DEF LinkedTo, Linked
  <2>4. s.alone /\ settled'[q] => Steady(s, q)' /\ Heading(s, q)'
    BY <1>1, <1>2, <1>3, <1>4, <2>1, <2>2, <2>3 DEF Steady, Heading
  <2> QED
    BY <1>1, <1>2, <1>3, <1>4, <2>1, <2>2, <2>4, OnwardKeeps
<1>5. CASE Ends(r)
  <2>1. /\ req' = [req EXCEPT ![r] = NoRequest]
        /\ \A k \in Questions : k # q => settled'[k] = settled[k]
        /\ settled'[q] => settled[q]
    BY <1>1, <1>5, EndsFrame
  <2> QED BY <1>1, <1>2, <1>3, <2>1, EndsKeeps
<1> QED BY <1>4, <1>5, CheckShape

LEMMA InsertKeeps ==
  ASSUME Typed, LinksInv, NEW r \in Requests, InsertLink(r), NEW q, q = req[r].question
  PROVE  LinksInv'
<1> DEFINE o == req[r].option
<1>1. /\ req[r].pc = "insert" /\ UNCHANGED <<parent, flags, settled>>
      /\ o \in Options /\ NewLink(q, o) /\ q \in Questions
  BY InsertShape, HasQuestion
<1>2. PICK s : Onward(r, s) /\ s.pc = "flag" /\ s.flag
  BY InsertShape
<1>3. s.alone = req[r].alone /\ s.repairs = req[r].repairs
  BY <1>2 DEF Onward
<1>4. /\ parent[q] # Omitted
      /\ s.alone /\ (settled[q] \/ s.repairs) =>
            Proper(q) /\ LinkedTo(q, o) = {} /\ OwnerOf[o] = parent[q]
  <2>1. QuestionInv(q)
    BY <1>1 DEF LinksInv
  <2> QED BY <1>1, <1>3, <2>1, AloneFacts DEF Heading
<1> HIDE DEF o
<1>5. LinksStep(q)
  BY <1>1, NewLinkShape
<1>6. PICK row \in Rows \ Linked(q) :
         /\ links[row] = NULL /\ links'[row] # NULL /\ links'[row].option = o
         /\ \A other \in Rows : other # row => links'[other] = links[other]
         /\ Linked(q)' = Linked(q) \cup {row}
  BY <1>1, NewLinkShape
<1>7. ASSUME Proper(q), LinkedTo(q, o) = {}, OwnerOf[o] = parent[q]
      PROVE  Proper(q)' /\ parent'[q] # NULL
  <2>1. \A other \in Linked(q) : /\ other \in Rows /\ other # row
                                 /\ links'[other] = links[other] /\ links[other].option # o
    BY <1>6, <1>7 DEF Linked, LinkedTo
  <2>2. Proper(q)'
    BY <1>1, <1>6, <1>7, <2>1 DEF Proper
  <2> QED BY <1>1, <1>7, <2>2, QuestionLinksAssumption
<1>8. Steady(s, q)'
  BY <1>2 DEF Steady
<1>9. s.alone /\ (settled'[q] \/ s.repairs) => Heading(s, q)'
  BY <1>1, <1>2, <1>4, <1>7 DEF Heading
<1> QED BY <1>1, <1>2, <1>4, <1>5, <1>8, <1>9, OnwardKeeps

LEMMA DeleteKeeps ==
  ASSUME Typed, LinksInv, NEW r \in Requests, DisassociateDelete(r), NEW q, q = req[r].question
  PROVE  LinksInv'
<1>1. /\ req[r].pc = "delete" /\ UNCHANGED <<parent, flags, settled>> /\ q \in Questions
      /\ LinksStep(q) /\ \A row \in Rows : links'[row] \in {links[row], NULL}
  BY DeleteShape, HasQuestion
<1>2. PICK s : Onward(r, s) /\ s.pc = "count"
  BY DeleteShape
<1>3. s.alone = req[r].alone /\ ~s.repairs
  BY <1>2 DEF Onward, Sane
<1>4. /\ parent[q] # Omitted
      /\ s.alone /\ settled[q] => Proper(q) /\ Marked(q)
  <2>1. QuestionInv(q)
    BY <1>1 DEF LinksInv
  <2> QED BY <1>1, <1>3, <2>1, AloneFacts DEF Steady
<1>5. s.alone /\ settled'[q] => Steady(s, q)' /\ Heading(s, q)'
  BY <1>1, <1>2, <1>4, DeletionKeeps DEF Steady, Heading
<1> QED BY <1>1, <1>2, <1>3, <1>4, <1>5, OnwardKeeps

LEMMA Unmoved ==
  ASSUME Typed, NEW q \in Questions, UNCHANGED links, parent'[q] = parent[q]
  PROVE  /\ LinksStep(q) /\ (Proper(q)' <=> Proper(q)) /\ Linked(q)' = Linked(q)
         /\ flags'[q] = flags[q] => /\ Parented(q)' <=> Parented(q)
                                    /\ Marked(q)' <=> Marked(q)
  BY SameLinks DEF Proper, Marked, Parented, Linked

LEMMA CountKeeps ==
  ASSUME Typed, LinksInv, NEW r \in Requests, DisassociateCount(r), NEW q, q = req[r].question
  PROVE  LinksInv'
<1>1. /\ req[r].pc = "count" /\ UNCHANGED <<parent, links, flags, settled>> /\ q \in Questions
      /\ ~req[r].repairs
  BY CountShape, HasQuestion DEF Typed, Sane
<1>2. PICK s : Onward(r, s) /\ s.pc = "flag" /\ s.flag = (Linked(q) # {})
  BY CountShape
<1>3. s.alone = req[r].alone /\ ~s.repairs
  BY <1>1, <1>2 DEF Onward
<1>4. /\ parent[q] # Omitted
      /\ s.alone /\ settled[q] => Proper(q) /\ Marked(q)
  <2>1. QuestionInv(q)
    BY <1>1 DEF LinksInv
  <2> QED BY <1>1, <1>3, <2>1, AloneFacts DEF Steady
<1>5. LinksStep(q) /\ (Proper(q)' <=> Proper(q)) /\ Linked(q)' = Linked(q)
  BY <1>1, Unmoved
<1>6. ASSUME Proper(q), s.flag PROVE parent[q] # NULL
  <2>1. PICK row \in Rows : row \in Linked(q)
    BY <1>2, <1>6 DEF Linked
  <2>2. links[row] \in Link
    BY <2>1 DEF Typed, Linked
  <2>3. OwnerOf[links[row].option] = parent[q] /\ links[row].option \in Options
    BY <1>6, <2>1, <2>2 DEF Proper, Link
  <2> QED BY <2>3, QuestionLinksAssumption
<1>7. s.alone /\ settled'[q] => Steady(s, q)' /\ Heading(s, q)'
  BY <1>1, <1>2, <1>4, <1>5, <1>6 DEF Steady, Heading
<1> QED BY <1>1, <1>2, <1>3, <1>4, <1>5, <1>7, OnwardKeeps

LEMMA SetFlagKeeps ==
  ASSUME Typed, LinksInv, NEW r \in Requests, SetFlag(r), NEW q, q = req[r].question
  PROVE  LinksInv'
<1>1. /\ req[r].pc = "flag" /\ UNCHANGED <<parent, links>> /\ Ends(r) /\ q \in Questions
      /\ \A k \in Questions : k # q => flags'[k] = flags[k]
      /\ \A t \in Tests : flags'[q][t] # NULL => flags'[q][t] = req[r].flag
  BY SetFlagShape, HasQuestion
<1>2. /\ parent[q] # Omitted /\ (settled[q] => req[r].alone)
      /\ req[r].alone /\ (settled[q] \/ req[r].repairs) =>
            /\ Proper(q) /\ (Linked(q) # {} => req[r].flag)
            /\ req[r].flag => parent[q] # NULL
  <2>1. QuestionInv(q)
    BY <1>1 DEF LinksInv
  <2> QED BY <1>1, <2>1, AloneFacts DEF Heading
<1>3. /\ req' = [req EXCEPT ![r] = NoRequest]
      /\ \A k \in Questions : k # q => settled'[k] = settled[k]
      /\ settled'[q] => settled[q] \/ (req[r].alone /\ req[r].repairs)
  BY <1>1, EndsFrame
<1>4. LinksStep(q) /\ (Proper(q)' <=> Proper(q)) /\ Linked(q)' = Linked(q)
  BY <1>1, Unmoved
<1>5. settled'[q] => Proper(q)' /\ Marked(q)'
  <2>1. ASSUME settled'[q] PROVE Proper(q) /\ (Linked(q) # {} => req[r].flag)
                                 /\ (req[r].flag => parent[q] # NULL)
    BY <1>2, <1>3, <2>1
  <2> QED BY <1>1, <1>4, <2>1 DEF Marked, Parented
<1> QED BY <1>1, <1>2, <1>3, <1>4, <1>5, EndsKeeps

LEMMA FailsKeeps ==
  ASSUME Typed, LinksInv, NEW r \in Requests, Fails(r), NEW q, q = req[r].question
  PROVE  LinksInv'
<1>1. /\ req[r].pc # "idle" /\ UNCHANGED <<parent, links, flags>> /\ q \in Questions
      /\ req' = [req EXCEPT ![r] = NoRequest]
      /\ settled' = [settled EXCEPT ![q] = @ /\ req[r].pc \in {"check", "delete", "save"}]
  BY FailsShape, HasQuestion
<1>2. /\ \A k \in Questions : k # q => settled'[k] = settled[k]
      /\ settled'[q] => settled[q] /\ req[r].pc \in {"check", "delete", "save"}
  BY <1>1 DEF Typed
<1>3. /\ parent[q] # Omitted /\ (settled[q] => req[r].alone)
      /\ req[r].alone /\ settled[q] /\ req[r].pc \in {"check", "delete", "save"} =>
            Proper(q) /\ Marked(q)
  <2>1. QuestionInv(q)
    BY <1>1 DEF LinksInv
  <2> QED BY <1>1, <2>1, AloneFacts DEF Steady
<1>4. LinksStep(q) /\ (Proper(q)' <=> Proper(q)) /\ (Marked(q)' <=> Marked(q))
  BY <1>1, Unmoved
<1> QED BY <1>1, <1>2, <1>3, <1>4, EndsKeeps

LEMMA SaveKeeps ==
  ASSUME Typed, LinksInv, NEW r \in Requests, UpdateSave(r), NEW q, q = req[r].question
  PROVE  LinksInv'
<1> DEFINE u == req[r]
<1>1. /\ u.pc = "save" /\ UNCHANGED <<links, flags>> /\ q \in Questions
      /\ \A k \in Questions : k # q => parent'[k] = parent[k]
      /\ parent'[q] = IF u.parent = Omitted THEN parent[q] ELSE u.parent
  BY SaveShape, HasQuestion
<1>2. /\ parent[q] # Omitted /\ (settled[q] => u.alone)
      /\ u.alone /\ settled[q] => Proper(q) /\ Marked(q)
  <2>1. QuestionInv(q)
    BY <1>1 DEF LinksInv
  <2> QED BY <1>1, <2>1, AloneFacts DEF Steady
<1>3. parent'[q] # Omitted
  BY <1>1, <1>2
<1>4. LinksStep(q) /\ Linked(q)' = Linked(q)
  BY <1>1, SameLinks DEF Linked
<1>5. CASE u.option # Omitted /\ UNCHANGED settled /\ \E s : Onward(r, s) /\ s.pc = "unlink"
  <2>1. PICK s : Onward(r, s) /\ s.pc = "unlink"
    BY <1>5
  <2>2. s.alone = u.alone /\ s.parent = u.parent
    BY <2>1 DEF Onward
  <2>3. s.alone /\ settled'[q] => Steady(s, q)'
    <3>1. SUFFICES ASSUME s.alone, settled'[q], s.parent = Omitted PROVE Parented(q)'
      BY <2>1 DEF Steady
    <3>2. parent'[q] = parent[q] /\ Parented(q)
      BY <1>1, <1>2, <1>5, <2>2, <3>1 DEF Marked
    <3> QED BY <1>1, <3>2 DEF Parented
  <2>4. Heading(s, q)'
    BY <1>1, <2>1, <2>2 DEF Heading
  <2> QED BY <1>1, <1>3, <1>4, <1>5, <2>1, <2>3, <2>4, OnwardKeeps
<1>6. CASE /\ u.option = Omitted /\ u.parent # Omitted
           /\ \E s : Onward(r, s) /\ s.pc = "flag" /\ s.flag = (u.parent # NULL)
           /\ settled' = [settled EXCEPT ![q] = @ /\ Linked(q) = {}]
  <2>1. PICK s : Onward(r, s) /\ s.pc = "flag" /\ s.flag = (u.parent # NULL)
    BY <1>6
  <2>2. s.alone = u.alone /\ ~s.repairs
    BY <1>1, <1>6, <2>1 DEF Onward, Typed, Sane
  <2>3. /\ \A k \in Questions : k # q => settled'[k] = settled[k]
        /\ settled'[q] => settled[q] /\ Linked(q) = {}
    BY <1>1, <1>6 DEF Typed
  <2>4. Steady(s, q)'
    BY <2>1 DEF Steady
  <2>5. settled'[q] => Heading(s, q)'
    BY <1>1, <1>4, <1>6, <2>1, <2>3 DEF Heading, Proper
  <2> QED BY <1>1, <1>3, <1>4, <2>1, <2>2, <2>3, <2>4, <2>5, OnwardKeeps
<1>7. CASE u.option = Omitted /\ u.parent = Omitted /\ Ends(r)
  <2>1. ~u.repairs
    BY <1>1, <1>7 DEF Typed, Sane
  <2>2. /\ req' = [req EXCEPT ![r] = NoRequest]
        /\ \A k \in Questions : k # q => settled'[k] = settled[k]
        /\ settled'[q] => settled[q]
    BY <1>1, <1>7, <2>1, EndsFrame
  <2>3. LinksStep(q) /\ (Proper(q)' <=> Proper(q)) /\ (Marked(q)' <=> Marked(q))
    BY <1>1, <1>7, Unmoved
  <2> QED BY <1>1, <1>2, <1>3, <2>2, <2>3, EndsKeeps
<1> QED BY <1>5, <1>6, <1>7, SaveShape

LEMMA UnlinkKeeps ==
  ASSUME Typed, LinksInv, NEW r \in Requests, UpdateUnlink(r), NEW q, q = req[r].question
  PROVE  LinksInv'
<1> DEFINE u == req[r]
<1>1. /\ u.pc = "unlink" /\ UNCHANGED <<parent, flags>> /\ q \in Questions
      /\ LinksStep(q) /\ Linked(q)' = {}
      /\ \A row \in Rows : links'[row] \in {links[row], NULL}
  BY UnlinkShape, HasQuestion
<1>2. /\ parent[q] # Omitted /\ (settled[q] => u.alone)
      /\ u.alone /\ settled[q] /\ u.parent = Omitted => Parented(q)
      /\ u.alone /\ (settled[q] \/ u.repairs) /\ u.parent # Omitted => parent[q] = u.parent
  <2>1. QuestionInv(q)
    BY <1>1 DEF LinksInv
  <2> QED BY <1>1, <2>1, AloneFacts DEF Steady, Heading
<1>3. Sane(u)
  BY DEF Typed
<1>4. Proper(q)'
  BY <1>1 DEF Proper
<1>5. CASE /\ u.option \in Options /\ UNCHANGED settled
           /\ \E s : Onward(r, s) /\ s.pc = "insert" /\ s.flag
  <2>1. PICK s : Onward(r, s) /\ s.pc = "insert" /\ s.flag
    BY <1>5
  <2>2. /\ s.alone = u.alone /\ s.repairs = u.repairs /\ s.option = u.option
        /\ u.parent \in Parents /\ OwnerOf[s.option] = u.parent
    BY <1>1, <1>3, <1>5, <2>1 DEF Onward, Sane
  <2>3. LinkedTo(q, s.option)' = {}
    BY <1>1 DEF LinkedTo
  <2>4. Steady(s, q)'
    BY <2>1 DEF Steady
  <2>5. s.alone /\ (settled'[q] \/ s.repairs) => Heading(s, q)'
    <3>1. u.parent # Omitted
      BY <2>2, QuestionLinksAssumption
    <3> QED BY <1>1, <1>2, <1>4, <1>5, <2>1, <2>2, <2>3, <3>1 DEF Heading
  <2> QED BY <1>1, <1>2, <1>5, <2>1, <2>4, <2>5, OnwardKeeps
<1>6. CASE /\ u.option = NULL /\ u.parent # Omitted /\ UNCHANGED settled
           /\ \E s : Onward(r, s) /\ s.pc = "flag" /\ s.flag = (u.parent # NULL)
  <2>1. PICK s : Onward(r, s) /\ s.pc = "flag" /\ s.flag = (u.parent # NULL)
    BY <1>6
  <2>2. s.alone = u.alone /\ s.repairs = u.repairs
    BY <2>1 DEF Onward
  <2>3. Steady(s, q)'
    BY <2>1 DEF Steady
  <2>4. s.alone /\ (settled'[q] \/ s.repairs) => Heading(s, q)'
    BY <1>1, <1>2, <1>4, <1>6, <2>1, <2>2 DEF Heading
  <2> QED BY <1>1, <1>2, <1>6, <2>1, <2>3, <2>4, OnwardKeeps
<1>7. CASE u.option = NULL /\ u.parent = Omitted /\ Ends(r)
  <2>1. ~u.repairs
    BY <1>3, <1>7 DEF Sane
  <2>2. /\ req' = [req EXCEPT ![r] = NoRequest]
        /\ \A k \in Questions : k # q => settled'[k] = settled[k]
        /\ settled'[q] => settled[q]
    BY <1>1, <1>7, <2>1, EndsFrame
  <2>3. settled'[q] => Proper(q)' /\ Marked(q)'
    <3>1. ASSUME settled'[q] PROVE Parented(q)
      BY <1>2, <1>7, <2>2, <3>1
    <3> QED BY <1>1, <1>4, <3>1 DEF Marked, Parented
  <2> QED BY <1>1, <1>2, <2>2, <2>3, EndsKeeps
<1> QED BY <1>5, <1>6, <1>7, UnlinkShape

\* A request begins: it is alone with its question, or none is.
LEMMA BeginsKeeps ==
  ASSUME Typed, LinksInv, NEW r \in Requests, NEW new \in RequestType, Sane(new),
         new.pc \in {"check", "delete", "save"}, NEW q, q = new.question,
         new.pc = "check" => OwnerOf[new.option] = parent[q],
         Begins(r, new), UNCHANGED <<parent, links, flags>>
  PROVE  LinksInv'
<1>1. /\ q \in Questions /\ req[r] = NoRequest /\ parent[q] # Omitted
      /\ req' \in [Requests -> RequestType]
      /\ Alike(req'[r], new) /\ (req'[r].alone <=> ~Busy(q))
      /\ \A t \in Requests : t # r => /\ Alike(req'[t], req[t])
                                      /\ Active(t, q) => ~req'[t].alone
                                      /\ ~Active(t, q) => req'[t] = req[t]
      /\ settled' = [settled EXCEPT ![q] = @ /\ ~Busy(q)]
  BY BeginsShape
<1>2. /\ \A k \in Questions : k # q => settled'[k] = settled[k]
      /\ settled'[q] => settled[q] /\ ~Busy(q)
  BY <1>1 DEF Typed
<1>3. Active(r, q)' /\ \A t \in Requests : t # r => (Active(t, q)' <=> Active(t, q))
  BY <1>1 DEF Alike, Active
<1>4. \A t \in Requests : t # r /\ Active(t, q) => Busy(q)
  BY DEF Busy
<1>5. ASSUME NEW k \in Questions, k # q PROVE QuestionInv(k)'
  <2>1. Linked(k)' = Linked(k) /\ \A row \in Linked(k) : links'[row] = links[row]
    BY DEF Linked
  <2>2. ASSUME NEW t \in Requests
        PROVE  (Active(t, k)' <=> Active(t, k)) /\ (Active(t, k) => req'[t] = req[t])
    <3>1. CASE t = r
      BY <1>1, <1>5, <3>1, NoRequestTyped DEF Alike, Active
    <3>2. CASE t # r
      BY <1>1, <1>5, <3>2 DEF Alike, Active
    <3> QED BY <3>1, <3>2
  <2>3. Same(k)
    BY <1>2, <1>5, <2>1, <2>2 DEF Same
  <2> QED BY <2>3, SameKept DEF LinksInv
<1>6. QuestionInv(q)'
  <2>1. Busy(q)'
    BY <1>3 DEF Busy
  <2>2. \A t \in Requests : Active(t, q)' /\ req'[t].alone => t = r /\ ~Busy(q)
    BY <1>1, <1>3
  <2>3. \A u, t \in Requests : Active(u, q)' /\ Active(t, q)' /\ req'[u].alone => u = t
    BY <1>3, <1>4, <2>2
  <2>4. settled'[q] => \A t \in Requests : Active(t, q)' => req'[t].alone
    BY <1>1, <1>2, <1>3, <1>4
  <2>5. ASSUME NEW t \in Requests PROVE Handled(t, q)'
    <3>1. SUFFICES ASSUME NEW s \in RequestType, s = req'[t], Active(t, q)', s.alone
                   PROVE  /\ settled'[q] => Steady(s, q)'
                          /\ settled'[q] \/ s.repairs => Heading(s, q)'
      BY DEF Handled
    <3>2. s.pc = new.pc /\ s.option = new.option
      BY <1>1, <2>2, <3>1 DEF Alike
    <3>3. Heading(s, q)'
      BY <3>2 DEF Heading
    <3>4. ASSUME settled'[q] PROVE Steady(s, q)'
      <4>1. Proper(q) /\ Marked(q)
        BY <1>1, <1>2, <3>4 DEF LinksInv, QuestionInv
      <4>2. Proper(q)' /\ Marked(q)'
        BY <1>1, <4>1, Unmoved
      <4> QED BY <3>2, <4>2 DEF Steady
    <3> QED BY <3>3, <3>4
  <2> QED BY <1>1, <2>1, <2>3, <2>4, <2>5 DEF QuestionInv
<1> QED BY <1>5, <1>6 DEF LinksInv

LEMMA AddKeeps ==
  ASSUME Typed, LinksInv, NEW q \in Questions, NEW t \in Tests, AddQuestionToTest(q, t)
  PROVE  LinksInv'
<1>1. /\ parent[q] # Omitted /\ UNCHANGED <<parent, links, req>>
      /\ \A k \in Questions : k # q => flags'[k] = flags[k] /\ settled'[k] = settled[k]
      /\ \A u \in Tests : u # t => flags'[q][u] = flags[q][u]
      /\ flags'[q][t] = FALSE
      /\ settled'[q] => settled[q] /\ Linked(q) = {}
  BY AddShape DEF Typed
<1>2. \A k \in Questions : \A u \in Requests : Active(u, k)' <=> Active(u, k)
  BY <1>1 DEF Active
<1>3. ASSUME NEW k \in Questions, k # q PROVE QuestionInv(k)'
  <2>1. Same(k)
    BY <1>1, <1>2, <1>3 DEF Same, Linked
  <2> QED BY <2>1, SameKept DEF LinksInv
<1>4. (Proper(q)' <=> Proper(q)) /\ Linked(q)' = Linked(q)
  BY <1>1, Unmoved
<1>5. Parented(q) => Parented(q)'
  BY <1>1 DEF Parented
<1>6. settled'[q] /\ Marked(q) => Marked(q)'
  BY <1>1, <1>4, <1>5 DEF Marked
<1>7. QuestionInv(q)
  BY DEF LinksInv
<1>8. Busy(q)' <=> Busy(q)
  BY <1>2 DEF Busy
<1>9. ASSUME NEW u \in Requests PROVE Handled(u, q)'
  <2>1. SUFFICES ASSUME NEW s \in RequestType, s = req'[u], Active(u, q)', s.alone
                 PROVE  /\ settled'[q] => Steady(s, q)'
                        /\ settled'[q] \/ s.repairs => Heading(s, q)'
    BY DEF Handled
  <2>2. /\ settled[q] => Steady(s, q)
        /\ settled[q] \/ s.repairs => Heading(s, q)
    BY <1>1, <1>2, <1>7, <2>1 DEF QuestionInv, Handled
  <2>3. settled'[q] => Steady(s, q)'
    BY <1>1, <1>4, <1>5, <1>6, <2>2 DEF Steady
  <2>4. Heading(s, q) => Heading(s, q)'
    BY <1>1, <1>4 DEF Heading, LinkedTo
  <2> QED BY <1>1, <2>2, <2>3, <2>4
<1>10. /\ parent'[q] = Omitted => Linked(q)' = {} /\ ~Busy(q)'
       /\ \A u, v \in Requests : Active(u, q)' /\ Active(v, q)' /\ req'[u].alone => u = v
       /\ settled'[q] => \A u \in Requests : Active(u, q)' => req'[u].alone
  BY <1>1, <1>2, <1>7 DEF QuestionInv
<1>11. settled'[q] /\ ~Busy(q)' => Proper(q)' /\ Marked(q)'
  BY <1>1, <1>4, <1>6, <1>7, <1>8 DEF QuestionInv
<1>12. QuestionInv(q)'
  BY <1>9, <1>10, <1>11 DEF QuestionInv
<1> QED BY <1>3, <1>12 DEF LinksInv

LEMMA CreateKeeps ==
  ASSUME Typed, LinksInv, NEW q \in Questions, NEW p \in Parents \cup {NULL},
         NEW o \in Options \cup {NULL}, NEW In \in SUBSET Tests, Create(q, p, o, In)
  PROVE  LinksInv'
<1>1. /\ parent[q] = Omitted /\ parent' = [parent EXCEPT ![q] = p]
      /\ UNCHANGED <<req, settled>> /\ LinksStep(q)
      /\ \A k \in Questions : k # q => flags'[k] = flags[k]
      /\ \A t \in Tests : flags'[q][t] # NULL => flags'[q][t] = (p # NULL)
  BY CreateShape
<1>2. /\ parent'[q] = p /\ p # Omitted
      /\ \A k \in Questions : k # q => parent'[k] = parent[k]
  BY <1>1, QuestionLinksAssumption DEF Typed
<1>3. \A k \in Questions : \A u \in Requests : Active(u, k)' <=> Active(u, k)
  BY <1>1 DEF Active
<1>4. ASSUME NEW k \in Questions, k # q PROVE QuestionInv(k)'
  <2>1. Linked(k)' = Linked(k) /\ \A row \in Linked(k) : links'[row] = links[row]
    BY <1>1, <1>4, OtherLinks
  <2>2. Same(k)
    BY <1>1, <1>2, <1>3, <1>4, <2>1 DEF Same
  <2> QED BY <2>2, SameKept DEF LinksInv
<1>5. Linked(q) = {} /\ \A u \in Requests : ~Active(u, q)
  <2>1. QuestionInv(q)
    BY DEF LinksInv
  <2> QED BY <1>1, <2>1 DEF QuestionInv, Busy
<1>6. \A u \in Requests : ~Active(u, q)'
  BY <1>3, <1>5
<1>7. Parented(q)'
  BY <1>1, <1>2 DEF Parented
<1>8. Proper(q)' /\ Marked(q)'
  <2>1. CASE o = NULL /\ UNCHANGED links
    <3>1. Linked(q)' = {}
      BY <1>5, <2>1 DEF Linked
    <3> QED BY <1>7, <3>1 DEF Proper, Marked
  <2>2. CASE o \in Options /\ p \in Parents /\ OwnerOf[o] = p /\ NewLink(q, o)
    <3>1. PICK row \in Rows : links'[row].option = o /\ Linked(q)' = Linked(q) \cup {row}
      BY <2>2, NewLinkShape
    <3>2. p # NULL
      BY <2>2, QuestionLinksAssumption
    <3>3. Proper(q)'
      BY <1>2, <1>5, <2>2, <3>1 DEF Proper
    <3>4. Marked(q)'
      BY <1>1, <1>7, <3>2 DEF Marked
    <3> QED BY <3>3, <3>4
  <2> QED BY <2>1, <2>2, CreateShape
<1>9. QuestionInv(q)'
  BY <1>2, <1>6, <1>8 DEF QuestionInv, Handled
<1> QED BY <1>4, <1>9 DEF LinksInv

LEMMA LinksInit == Init => LinksInv
<1> SUFFICES ASSUME Init, NEW q \in Questions PROVE QuestionInv(q)
  BY DEF LinksInv
<1>1. Linked(q) = {} /\ \A r \in Requests : ~Active(r, q)
  BY NoRequestTyped DEF Init, Linked, Active
<1>2. Proper(q) /\ Marked(q)
  BY <1>1 DEF Init, Proper, Marked, Parented
<1> QED BY <1>1, <1>2 DEF QuestionInv, Handled, Busy

LEMMA LinksNext == Typed /\ LinksInv /\ [Next]_vars => LinksInv'
<1> SUFFICES ASSUME Typed, LinksInv, [Next]_vars PROVE LinksInv'
  OBVIOUS
<1>1. ASSUME NEW q \in Questions, NEW p \in Parents \cup {NULL}, NEW o \in Options \cup {NULL},
             NEW In \in SUBSET Tests, Create(q, p, o, In)
      PROVE  LinksInv'
  BY <1>1, CreateKeeps
<1>2. ASSUME NEW q \in Questions, NEW t \in Tests, AddQuestionToTest(q, t) PROVE LinksInv'
  BY <1>2, AddKeeps
<1>3. ASSUME NEW r \in Requests, NEW q \in Questions, NEW o \in Options, Associate(r, q, o)
      PROVE  LinksInv'
  <2> DEFINE new == Request("check", q, Omitted, o)
  <2>1. parent[q] = OwnerOf[o] /\ Begins(r, new) /\ UNCHANGED <<parent, links, flags>>
    BY <1>3 DEF Associate
  <2>2. /\ new \in RequestType /\ Sane(new) /\ new.pc = "check"
        /\ new.question = q /\ new.option = o
    BY NewRequests
  <2> HIDE DEF new
  <2> QED BY <2>1, <2>2, BeginsKeeps
<1>4. ASSUME NEW r \in Requests, NEW q \in Questions, NEW o \in Options, Disassociate(r, q, o)
      PROVE  LinksInv'
  <2>1. PICK row \in LinkedTo(q, o) :
           Begins(r, [Request("delete", q, Omitted, o) EXCEPT !.row = row])
    BY <1>4 DEF Disassociate
  <2> DEFINE new == [Request("delete", q, Omitted, o) EXCEPT !.row = row]
  <2>2. Begins(r, new) /\ UNCHANGED <<parent, links, flags>>
    BY <1>4, <2>1 DEF Disassociate
  <2>3. new \in RequestType /\ Sane(new) /\ new.pc = "delete" /\ new.question = q
    BY NewRequests
  <2> HIDE DEF new
  <2> QED BY <2>2, <2>3, BeginsKeeps
<1>5. ASSUME NEW r \in Requests, NEW q \in Questions, NEW p \in Parents \cup {NULL, Omitted},
             NEW o \in Options \cup {NULL, Omitted}, Update(r, q, p, o)
      PROVE  LinksInv'
  <2> DEFINE new == [Request("save", q, p, o) EXCEPT !.flag = p # NULL]
  <2>1. Begins(r, new) /\ UNCHANGED <<parent, links, flags>> /\ Permitted(p, o)
    BY <1>5 DEF Update
  <2>2. new \in RequestType /\ Sane(new) /\ new.pc = "save" /\ new.question = q
    BY <2>1, NewRequests
  <2> HIDE DEF new
  <2> QED BY <2>1, <2>2, BeginsKeeps
<1>6. ASSUME NEW r \in Requests, AssociateCheck(r) \/ InsertLink(r) PROVE LinksInv'
  BY <1>6, CheckKeeps, InsertKeeps
<1>7. ASSUME NEW r \in Requests, DisassociateDelete(r) \/ DisassociateCount(r) PROVE LinksInv'
  BY <1>7, DeleteKeeps, CountKeeps
<1>8. ASSUME NEW r \in Requests, UpdateSave(r) \/ UpdateUnlink(r) PROVE LinksInv'
  BY <1>8, SaveKeeps, UnlinkKeeps
<1>9. ASSUME NEW r \in Requests, SetFlag(r) \/ Fails(r) PROVE LinksInv'
  BY <1>9, SetFlagKeeps, FailsKeeps
<1>10. ASSUME UNCHANGED vars PROVE LinksInv'
  <2>1. ASSUME NEW q \in Questions PROVE Same(q)
    BY <1>10 DEF vars, Same, Linked, Active
  <2> QED BY <2>1, SameKept DEF LinksInv
<1> QED BY <1>1, <1>2, <1>3, <1>4, <1>5, <1>6, <1>7, <1>8, <1>9, <1>10 DEF Next

(***************************************************************************)
(* Whatever questions, options and tests there are and however many        *)
(* requests of associateQuestionWithOption, of                             *)
(* removeQuestionOptionAssociation and of update overlap or fail: a        *)
(* question that an update has put right alone, and that only requests     *)
(* which were alone have touched since, has links to options of its        *)
(* parent, one to each, and the flag that says so.                         *)
(***************************************************************************)
THEOREM LinksStaySettled == Spec => []LinksSettle
<1>1. LinksInv => LinksSettle
  <2> SUFFICES ASSUME LinksInv, NEW q \in Questions, settled[q], ~Busy(q)
               PROVE  /\ \A row \in Linked(q) :
                            /\ OwnerOf[links[row].option] = parent[q]
                            /\ LinkedTo(q, links[row].option) = {row}
                      /\ \A t \in Tests : flags[q][t] # NULL =>
                            /\ Linked(q) # {} => flags[q][t]
                            /\ flags[q][t] => parent[q] # NULL
    BY DEF LinksSettle
  <2>1. Proper(q) /\ Marked(q)
    BY DEF LinksInv, QuestionInv
  <2> QED BY <2>1 DEF Proper, Marked, Parented, LinkedTo
<1> QED BY <1>1, LinksInit, LinksNext, AlwaysTyped, PTL DEF Spec

-----------------------------------------------------------------------------
(***************************************************************************)
(* The links of a question to an option, and the requests about to add one.*)
(***************************************************************************)
Bounded(q, o) ==
    Cardinality(LinkedTo(q, o)) + Cardinality(Inserters(q, o)) <= Cardinality(Requests)

LEMMA CopiesFinite ==
  ASSUME NEW q, NEW o
  PROVE  /\ IsFiniteSet(LinkedTo(q, o)) /\ IsFiniteSet(Inserters(q, o))
         /\ IsFiniteSet(LinkedTo(q, o)') /\ IsFiniteSet(Inserters(q, o)')
         /\ Cardinality(LinkedTo(q, o)) \in Nat /\ Cardinality(Inserters(q, o)) \in Nat
         /\ Cardinality(LinkedTo(q, o)') \in Nat /\ Cardinality(Inserters(q, o)') \in Nat
         /\ Cardinality(Requests) \in Nat
         /\ Cardinality(Inserters(q, o)') <= Cardinality(Requests)
<1>1. /\ LinkedTo(q, o) \subseteq Rows /\ LinkedTo(q, o)' \subseteq Rows
      /\ Inserters(q, o) \subseteq Requests /\ Inserters(q, o)' \subseteq Requests
  BY DEF LinkedTo, Linked, Inserters
<1>2. IsFiniteSet(Rows) /\ IsFiniteSet(Requests)
  BY QuestionLinksAssumption
<1> QED BY <1>1, <1>2, FS_Subset, FS_CardinalityType

LEMMA FewerBounded ==
  ASSUME NEW q, NEW o, Bounded(q, o),
         LinkedTo(q, o)' \subseteq LinkedTo(q, o), Inserters(q, o)' \subseteq Inserters(q, o)
  PROVE  Bounded(q, o)'
<1> DEFINE a == LinkedTo(q, o)
           b == Inserters(q, o)
<1>1. Cardinality(a') <= Cardinality(a) /\ Cardinality(b') <= Cardinality(b)
  BY CopiesFinite, FS_Subset
<1> QED BY <1>1, CopiesFinite DEF Bounded

\* None is linked: there is room for every request to insert.
LEMMA NoneBounded ==
  ASSUME NEW q, NEW o, LinkedTo(q, o)' = {} PROVE Bounded(q, o)'
<1>1. Cardinality(LinkedTo(q, o)') = 0
  BY FS_EmptySet
<1> QED BY <1>1, CopiesFinite DEF Bounded

\* A request inserts: one link more, one about to be inserted fewer.
LEMMA InsertBounded ==
  ASSUME NEW q, NEW o, Bounded(q, o), NEW row, NEW r,
         row \notin LinkedTo(q, o), LinkedTo(q, o)' = LinkedTo(q, o) \cup {row},
         r \in Inserters(q, o), Inserters(q, o)' = Inserters(q, o) \ {r}
  PROVE  Bounded(q, o)'
<1>1. Cardinality(LinkedTo(q, o)') = Cardinality(LinkedTo(q, o)) + 1
  BY CopiesFinite, FS_AddElement
<1>2. Cardinality(Inserters(q, o)') = Cardinality(Inserters(q, o)) - 1
  BY CopiesFinite, FS_RemoveElement
<1> QED BY <1>1, <1>2, CopiesFinite DEF Bounded

\* Who inserts after a step of request r.
LEMMA InsertersStep ==
  ASSUME Typed, NEW r \in Requests, req[r].pc # "idle", NEW s, req' = [req EXCEPT ![r] = s],
         NEW q, NEW o
  PROVE  /\ s.pc # "insert" => Inserters(q, o)' = Inserters(q, o) \ {r}
         /\ s.question # q \/ s.option # o => Inserters(q, o)' \subseteq Inserters(q, o)
  BY DEF Typed, Inserters

LEMMA UnlinkedStep ==
  ASSUME Typed, NEW q \in Questions, NEW o,
         \A row \in Rows : links'[row] \in {links[row], NULL}
  PROVE  LinkedTo(q, o)' \subseteq LinkedTo(q, o)
  BY DEF LinkedTo, Linked

\* A request ends, fails, or goes on to a statement that is no insertion, and inserts nothing.
LEMMA ShrinksBounded ==
  ASSUME Typed, CopiesInv, NEW r \in Requests, req[r].pc # "idle",
         NEW s, s.pc # "insert", req' = [req EXCEPT ![r] = s],
         \A row \in Rows : links'[row] \in {links[row], NULL}
  PROVE  CopiesInv'
<1>1. ASSUME NEW q \in Questions, NEW o \in Options PROVE Bounded(q, o)'
  <2>1. Inserters(q, o)' \subseteq Inserters(q, o)
    BY InsertersStep
  <2>2. LinkedTo(q, o)' \subseteq LinkedTo(q, o)
    BY UnlinkedStep
  <2>3. Bounded(q, o)
    BY DEF CopiesInv, Bounded
  <2> QED BY <2>1, <2>2, <2>3, FewerBounded
<1> QED BY <1>1 DEF CopiesInv, Bounded

\* A request goes on to insert a link that is not there.
LEMMA GrowsBounded ==
  ASSUME Typed, CopiesInv, NEW r \in Requests, req[r].pc # "idle",
         NEW s, req' = [req EXCEPT ![r] = s],
         \A row \in Rows : links'[row] \in {links[row], NULL},
         NEW p, p = s.question, NEW a, a = s.option, LinkedTo(p, a)' = {}
  PROVE  CopiesInv'
<1>1. ASSUME NEW q \in Questions, NEW o \in Options PROVE Bounded(q, o)'
  <2>1. CASE q = p /\ o = a
    BY <2>1, NoneBounded
  <2>2. CASE q # p \/ o # a
    <3>1. Inserters(q, o)' \subseteq Inserters(q, o)
      BY <2>2, InsertersStep
    <3>2. LinkedTo(q, o)' \subseteq LinkedTo(q, o)
      BY UnlinkedStep
    <3>3. Bounded(q, o)
      BY DEF CopiesInv, Bounded
    <3> QED BY <3>1, <3>2, <3>3, FewerBounded
  <2> QED BY <2>1, <2>2
<1> QED BY <1>1 DEF CopiesInv, Bounded

LEMMA BeginsBounded ==
  ASSUME Typed, CopiesInv, NEW r \in Requests, NEW new \in RequestType, Sane(new),
         new.pc \in {"check", "delete", "save"}, Begins(r, new), UNCHANGED links
  PROVE  CopiesInv'
<1>1. \A t \in Requests : \/ t = r /\ req'[t].pc # "insert"
                          \/ Alike(req'[t], req[t])
  BY BeginsShape DEF Alike
<1>2. ASSUME NEW q \in Questions, NEW o \in Options PROVE Bounded(q, o)'
  <2>1. Inserters(q, o)' \subseteq Inserters(q, o)
    BY <1>1 DEF Inserters, Alike
  <2>2. LinkedTo(q, o)' \subseteq LinkedTo(q, o)
    BY DEF LinkedTo, Linked
  <2>3. Bounded(q, o)
    BY DEF CopiesInv, Bounded
  <2> QED BY <2>1, <2>2, <2>3, FewerBounded
<1> QED BY <1>2 DEF CopiesInv, Bounded

LEMMA InsertKeepsCopies ==
  ASSUME Typed, CopiesInv, NEW r \in Requests, InsertLink(r),
         NEW p, p = req[r].question, NEW a, a = req[r].option
  PROVE  CopiesInv'
<1>1. /\ req[r].pc = "insert" /\ a \in Options /\ p \in Questions /\ NewLink(p, a)
  BY InsertShape, HasQuestion
<1>2. PICK s : Onward(r, s) /\ s.pc = "flag"
  BY InsertShape
<1>3. LinksStep(p)
  BY <1>1, NewLinkShape
<1>4. PICK row \in Rows \ Linked(p) :
         /\ row \notin LinkedTo(p, a)
         /\ LinkedTo(p, a)' = LinkedTo(p, a) \cup {row}
         /\ \A o \in Options : o # a => LinkedTo(p, o)' = LinkedTo(p, o)
  BY <1>1, NewLinkShape
<1>5. \A q, o : Inserters(q, o)' = Inserters(q, o) \ {r}
  BY <1>1, <1>2, InsertersStep DEF Onward
<1>6. ASSUME NEW q \in Questions, NEW o \in Options PROVE Bounded(q, o)'
  <2>1. Bounded(q, o)
    BY DEF CopiesInv, Bounded
  <2>2. CASE q = p /\ o = a
    <3>1. r \in Inserters(q, o)
      BY <1>1, <2>2 DEF Inserters
    <3> QED BY <1>4, <1>5, <2>1, <2>2, <3>1, InsertBounded
  <2>3. CASE q = p /\ o # a
    BY <1>4, <1>5, <2>1, <2>3, FewerBounded
  <2>4. CASE q # p
    <3>1. LinkedTo(q, o)' \subseteq LinkedTo(q, o)
      BY <1>1, <1>3, <2>4, OtherLinks DEF LinkedTo
    <3> QED BY <1>5, <2>1, <3>1, FewerBounded
  <2> QED BY <2>2, <2>3, <2>4
<1> QED BY <1>6 DEF CopiesInv, Bounded

\* A question is created with one link at most, and no request knows of it yet.
LEMMA CreateKeepsCopies ==
  ASSUME Typed, LinksInv, CopiesInv, NEW p \in Questions, NEW parentOf \in Parents \cup {NULL},
         NEW a \in Options \cup {NULL}, NEW In \in SUBSET Tests, Create(p, parentOf, a, In)
  PROVE  CopiesInv'
<1>1. /\ parent[p] = Omitted /\ UNCHANGED req /\ LinksStep(p)
      /\ UNCHANGED links \/ (a \in Options /\ NewLink(p, a))
  BY CreateShape
<1>2. Linked(p) = {} /\ \A r \in Requests : ~Active(r, p)
  <2>1. QuestionInv(p)
    BY DEF LinksInv
  <2> QED BY <1>1, <2>1 DEF QuestionInv, Busy
<1>3. \A q, o : Inserters(q, o)' = Inserters(q, o)
  BY <1>1 DEF Inserters
<1>4. ASSUME NEW q \in Questions, NEW o \in Options PROVE Bounded(q, o)'
  <2>1. Bounded(q, o)
    BY DEF CopiesInv, Bounded
  <2>2. CASE q # p
    <3>1. LinkedTo(q, o)' \subseteq LinkedTo(q, o)
      BY <1>1, <2>2, OtherLinks DEF LinkedTo
    <3> QED BY <1>3, <2>1, <3>1, FewerBounded
  <2>3. CASE q = p
    <3>1. CASE UNCHANGED links
      <4>1. LinkedTo(q, o)' \subseteq LinkedTo(q, o)
        BY <3>1 DEF LinkedTo, Linked
      <4> QED BY <1>3, <2>1, <4>1, FewerBounded
    <3>2. CASE a \in Options /\ NewLink(p, a)
      <4>1. PICK row \in Rows : Linked(q)' = Linked(q) \cup {row}
        BY <2>3, <3>2, NewLinkShape
      <4>2. LinkedTo(q, o)' \subseteq {row}
        BY <1>2, <2>3, <4>1 DEF LinkedTo
      <4>3. Inserters(q, o)' = {}
        BY <1>2, <1>3, <2>3 DEF Inserters, Active
      <4>4. Cardinality(LinkedTo(q, o)') <= 1
        <5>1. IsFiniteSet({row}) /\ Cardinality({row}) = 1
          BY FS_Singleton
        <5> QED BY <4>2, <5>1, FS_Subset
      <4>5. Cardinality(Inserters(q, o)') = 0
        BY <4>3, FS_EmptySet
      <4>6. Cardinality(Requests) # 0
        BY QuestionLinksAssumption, FS_EmptySet
      <4> QED BY <4>4, <4>5, <4>6, CopiesFinite DEF Bounded
    <3> QED BY <1>1, <3>1, <3>2
  <2> QED BY <2>2, <2>3
<1> QED BY <1>4 DEF CopiesInv, Bounded

LEMMA CopiesInit == Init => CopiesInv
<1> SUFFICES ASSUME Init, NEW q \in Questions, NEW o \in Options PROVE Bounded(q, o)
  BY DEF CopiesInv, Bounded
<1>1. LinkedTo(q, o) = {} /\ Inserters(q, o) = {}
  BY NoRequestTyped DEF Init, LinkedTo, Linked, Inserters
<1> QED BY <1>1, CopiesFinite, FS_EmptySet DEF Bounded

LEMMA CopiesNext == Typed /\ LinksInv /\ CopiesInv /\ [Next]_vars => CopiesInv'
<1> SUFFICES ASSUME Typed, LinksInv, CopiesInv, [Next]_vars PROVE CopiesInv'
  OBVIOUS
<1> DEFINE Kept == \A row \in Rows : links'[row] \in {links[row], NULL}
<1>1. ASSUME NEW q \in Questions, NEW p \in Parents \cup {NULL}, NEW o \in Options \cup {NULL},
             NEW In \in SUBSET Tests, Create(q, p, o, In)
      PROVE  CopiesInv'
  BY <1>1, CreateKeepsCopies
<1>2. ASSUME UNCHANGED <<links, req>> PROVE CopiesInv'
  BY <1>2 DEF CopiesInv, LinkedTo, Linked, Inserters
<1>3. ASSUME NEW r \in Requests, NEW q \in Questions, NEW o \in Options, Associate(r, q, o)
      PROVE  CopiesInv'
  <2> DEFINE new == Request("check", q, Omitted, o)
  <2>1. Begins(r, new) /\ UNCHANGED links
    BY <1>3 DEF Associate
  <2>2. new \in RequestType /\ Sane(new) /\ new.pc = "check"
    BY NewRequests
  <2> HIDE DEF new
  <2> QED BY <2>1, <2>2, BeginsBounded
<1>4. ASSUME NEW r \in Requests, NEW q \in Questions, NEW o \in Options, Disassociate(r, q, o)
      PROVE  CopiesInv'
  <2>1. PICK row \in LinkedTo(q, o) :
           Begins(r, [Request("delete", q, Omitted, o) EXCEPT !.row = row])
    BY <1>4 DEF Disassociate
  <2> DEFINE new == [Request("delete", q, Omitted, o) EXCEPT !.row = row]
  <2>2. Begins(r, new) /\ UNCHANGED links
    BY <1>4, <2>1 DEF Disassociate
  <2>3. new \in RequestType /\ Sane(new) /\ new.pc = "delete"
    BY NewRequests
  <2> HIDE DEF new
  <2> QED BY <2>2, <2>3, BeginsBounded
<1>5. ASSUME NEW r \in Requests, NEW q \in Questions, NEW p \in Parents \cup {NULL, Omitted},
             NEW o \in Options \cup {NULL, Omitted}, Update(r, q, p, o)
      PROVE  CopiesInv'
  <2> DEFINE new == [Request("save", q, p, o) EXCEPT !.flag = p # NULL]
  <2>1. Begins(r, new) /\ UNCHANGED links /\ Permitted(p, o)
    BY <1>5 DEF Update
  <2>2. new \in RequestType /\ Sane(new) /\ new.pc = "save"
    BY <2>1, NewRequests
  <2> HIDE DEF new
  <2> QED BY <2>1, <2>2, BeginsBounded
<1>6. ASSUME NEW r \in Requests, AssociateCheck(r) PROVE CopiesInv'
  <2>1. req[r].pc # "idle" /\ Kept
    BY <1>6, CheckShape
  <2>2. CASE Ends(r)
    BY <2>1, <2>2, NoRequestTyped, ShrinksBounded DEF Ends
  <2>3. CASE LinkedTo(req[r].question, req[r].option) = {} /\ \E s : Onward(r, s)
    <3>1. PICK s : Onward(r, s)
      BY <2>3
    <3> DEFINE q == s.question
               o == s.option
    <3>2. LinkedTo(q, o)' = {}
      BY <1>6, <2>3, <3>1, CheckShape DEF Onward, LinkedTo, Linked
    <3> QED BY <2>1, <3>1, <3>2, GrowsBounded DEF Onward
  <2> QED BY <1>6, <2>2, <2>3, CheckShape
<1>7. ASSUME NEW r \in Requests, InsertLink(r) PROVE CopiesInv'
  BY <1>7, InsertKeepsCopies
<1>8. ASSUME NEW r \in Requests, DisassociateDelete(r) \/ DisassociateCount(r) PROVE CopiesInv'
  <2>1. req[r].pc # "idle" /\ Kept
    BY <1>8, DeleteShape, CountShape
  <2>2. PICK s : Onward(r, s) /\ s.pc # "insert"
    BY <1>8, DeleteShape, CountShape
  <2> QED BY <2>1, <2>2, ShrinksBounded DEF Onward
<1>9. ASSUME NEW r \in Requests, UpdateSave(r) PROVE CopiesInv'
  <2>1. req[r].pc # "idle" /\ Kept
    BY <1>9, SaveShape
  <2>2. CASE \E s : Onward(r, s) /\ s.pc # "insert"
    BY <2>1, <2>2, ShrinksBounded DEF Onward
  <2>3. CASE Ends(r)
    BY <2>1, <2>3, NoRequestTyped, ShrinksBounded DEF Ends
  <2> QED BY <1>9, <2>2, <2>3, SaveShape
<1>10. ASSUME NEW r \in Requests, UpdateUnlink(r), NEW q, q = req[r].question PROVE CopiesInv'
  <2>1. req[r].pc # "idle" /\ Kept /\ Linked(q)' = {}
    BY <1>10, UnlinkShape
  <2>2. CASE \E s : Onward(r, s) /\ s.pc # "insert"
    BY <2>1, <2>2, ShrinksBounded DEF Onward
  <2>3. CASE Ends(r)
    BY <2>1, <2>3, NoRequestTyped, ShrinksBounded DEF Ends
  <2>4. CASE \E s : Onward(r, s)
    <3>1. PICK s : Onward(r, s)
      BY <2>4
    <3> DEFINE o == s.option
    <3>2. LinkedTo(q, o)' = {} /\ s.question = q
      BY <1>10, <2>1, <3>1 DEF Onward, LinkedTo
    <3> QED BY <2>1, <3>1, <3>2, GrowsBounded DEF Onward
  <2> QED BY <1>10, <2>2, <2>3, <2>4, UnlinkShape
<1>11. ASSUME NEW r \in Requests, SetFlag(r) \/ Fails(r) PROVE CopiesInv'
  <2>1. req[r].pc # "idle" /\ Kept
    BY <1>11, SetFlagShape, FailsShape
  <2>2. req' = [req EXCEPT ![r] = NoRequest]
    BY <1>11, SetFlagShape, FailsShape DEF Ends
  <2> QED BY <2>1, <2>2, NoRequestTyped, ShrinksBounded
<1>12. ASSUME NEW q \in Questions, NEW t \in Tests, AddQuestionToTest(q, t) PROVE CopiesInv'
  BY <1>2, <1>12, AddShape
<1>13. CASE UNCHANGED vars
  BY <1>2, <1>13 DEF vars
<1> QED BY <1>1, <1>3, <1>4, <1>5, <1>6, <1>7, <1>8, <1>9, <1>10, <1>11, <1>12, <1>13 DEF Next

(***************************************************************************)
(* associateQuestionWithOption looks before it inserts and no constraint   *)
(* backs it: however requests overlap or fail, no question is linked to an *)
(* option more often than there are requests in flight together.           *)
(***************************************************************************)
THEOREM CopiesStayBounded == Spec => []DuplicatesBounded
<1>1. CopiesInv => DuplicatesBounded
  <2> SUFFICES ASSUME CopiesInv, NEW q \in Questions, NEW o \in Options
               PROVE  Cardinality(LinkedTo(q, o)) <= Cardinality(Requests)
    BY DEF DuplicatesBounded
  <2> QED BY CopiesFinite DEF CopiesInv
<1> QED BY <1>1, LinksInit, LinksNext, CopiesInit, CopiesNext, AlwaysTyped, PTL DEF Spec
=============================================================================
