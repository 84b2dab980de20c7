----------------------------- MODULE WebClient -----------------------------
(***************************************************************************)
(* The single-screen client (apps/web/src/main.tsx) and what the API does  *)
(* for it.  Each handler of the screen is a chain of calls; their answers  *)
(* come in any order and may be lost.  The busy flag disables every button *)
(* but the rows of the document list.                                      *)
(*                                                                         *)
(* Role and tenant of the sign-in form are read afresh by each handler and *)
(* may be anything then, so they are parameters and no variables.  What    *)
(* the API checks about a correction or a submission besides role and      *)
(* tenant is the subject of Review.tla.                                    *)
(***************************************************************************)
EXTENDS Access, Integers, FiniteSets

CONSTANTS
  Docs,        \* the documents there may be
  Tenants,
  SignIns,     \* what users may put into the sign-in form: user name and tenant
  Seeded,      \* the tenant of each document, None for one that is not there yet
  MaxCalls,    \* bound on the calls in flight
  None

ASSUME WebClientAssumption ==
  /\ SignIns \subseteq [username : Roles, tenant : Tenants]
  /\ None \notin Docs \union Tenants
  /\ \A form \in SignIns : None # IssuedFor(form.username, form.tenant)
  /\ Seeded \in [Docs -> Tenants \union {None}]
  /\ MaxCalls \in Nat

Slots == 1..MaxCalls

VARIABLES
  owner,      \* the API: the tenant of each document, None while it is not there
  token,      \* what the last sign-in returned
  documents,  \* the list on the screen
  selected,   \* selectedId
  detail,     \* the document whose detail is on the screen
  typed,      \* the document whose values the correction inputs hold
  busy,
  effect,     \* the effect of a new token has yet to run
  calls,      \* per slot, the handler under way and the call it waits for
  broken      \* a call failed since a detail was last loaded

screen == <<documents, selected, detail, typed>>
vars == <<owner, token, screen, busy, effect, calls, broken>>

Tokens == {IssuedFor(form.username, form.tenant) : form \in SignIns}
Idle == [handler |-> "idle"]

(* A handler and the call it waits for: the document of the call, the token of
   its closure, and what the handler will need later: the document to prefer
   and whether to ask for the admin status.  holds is the document whose values
   a write sends, done tells that the API has carried the write out. *)
Waiting(name, waits, doc, by) ==
  [handler |-> name, waits |-> waits, doc |-> doc, by |-> by, preferred |-> None,
   asAdmin |-> FALSE, holds |-> None, done |-> FALSE]

(* refresh, by itself or as the last thing another handler does. *)
Refreshing(by, preferred, asAdmin) ==
  [Waiting("refresh", "list", None, by) EXCEPT !.preferred = preferred, !.asAdmin = asAdmin]

Init ==
  /\ owner = Seeded
  /\ token = None
  /\ documents = {}
  /\ selected = None /\ detail = None /\ typed = None
  /\ busy = FALSE /\ effect = FALSE
  /\ calls = [s \in Slots |-> Idle]
  /\ broken = FALSE

IsFree(s) == calls[s] = Idle
Starts(s, handler) == IsFree(s) /\ (\A r \in 1..(s - 1) : ~IsFree(r)) /\ calls' = [calls EXCEPT ![s] = handler]
Ends(s) == calls' = [calls EXCEPT ![s] = Idle]

-----------------------------------------------------------------------------
(* The buttons. *)
SignIn(s, form) ==
  /\ ~busy
  /\ Starts(s, Waiting("login", "login", None, IssuedFor(form.username, form.tenant)))
  /\ busy' = TRUE
  /\ UNCHANGED <<owner, token, screen, effect, broken>>

(* Mutant of PressRefresh: no look at the token. *)
PressRefreshSignedOut(s, asAdmin) ==
  /\ ~busy
  /\ Starts(s, Refreshing(token, selected, asAdmin))
  /\ busy' = TRUE
  /\ UNCHANGED <<owner, token, screen, effect, broken>>

PressRefresh(s, asAdmin) ==
  /\ ~busy /\ token # None
  /\ Starts(s, Refreshing(token, selected, asAdmin))
  /\ busy' = TRUE
  /\ UNCHANGED <<owner, token, screen, effect, broken>>

(* useEffect on the token runs after the screen was rendered with it; a click
   may come first. *)
RunEffect(s, asAdmin) ==
  /\ effect
  /\ Starts(s, Refreshing(token, selected, asAdmin))
  /\ effect' = FALSE
  /\ busy' = TRUE
  /\ UNCHANGED <<owner, token, screen, broken>>

(* A row of the list: no busy flag, neither asked nor set. *)
ClickRow(s, d) ==
  /\ d \in documents
  /\ Starts(s, Waiting("click", "detail", d, token))
  /\ UNCHANGED <<owner, token, screen, busy, effect, broken>>

PressUpload(s, d, asAdmin) ==
  /\ ~busy /\ token # None
  /\ owner[d] = None
  /\ Starts(s, [Waiting("upload", "upload", d, token) EXCEPT !.asAdmin = asAdmin])
  /\ busy' = TRUE
  /\ UNCHANGED <<owner, token, screen, effect, broken>>

PressSave(s) ==
  /\ ~busy /\ detail # None
  /\ Starts(s, [Waiting("save", "save", detail, token) EXCEPT !.holds = typed])
  /\ busy' = TRUE
  /\ UNCHANGED <<owner, token, screen, effect, broken>>

PressSubmit(s, asAdmin) ==
  /\ ~busy /\ detail # None
  /\ Starts(s, [Waiting("submit", "submit", detail, token)
                 EXCEPT !.preferred = selected, !.asAdmin = asAdmin, !.holds = detail])
  /\ busy' = TRUE
  /\ UNCHANGED <<owner, token, screen, effect, broken>>

-----------------------------------------------------------------------------
(* Mutant of IsOwn: a lookup without its tenant filter. *)
IsAnyones(d, tenant) == owner[d] # None

(* DocumentRepository.get: another tenant's document is not found. *)
IsOwn(d, tenant) == owner[d] = tenant

(* The API carries out a write; its answer is still to come. *)
ServeWrite(s) ==
  LET call == calls[s]
      caller == Principal(call.by)
  IN /\ call # Idle
     /\ call.waits \in {"upload", "save", "submit"} /\ ~call.done
     /\ MayUse(caller, call.waits)
     /\ IF call.waits = "upload"
        THEN /\ owner[call.doc] = None
             /\ owner' = [owner EXCEPT ![call.doc] = caller.tenant]
        ELSE /\ IsOwn(call.doc, caller.tenant)
             /\ UNCHANGED owner
     /\ calls' = [calls EXCEPT ![s].done = TRUE]
     /\ UNCHANGED <<token, screen, busy, effect, broken>>

(* Mutant of LoginAnswered: the refresh that follows is left to free the buttons. *)
LoginStaysBusy(s) ==
  /\ calls[s].waits = "login"
  /\ token' = calls[s].by
  /\ effect' \in (IF token = calls[s].by THEN {effect, TRUE} ELSE {TRUE})
  /\ Ends(s)
  /\ UNCHANGED <<owner, screen, busy, broken>>

(* login ends, with a token; one issued in the same second is the same string,
   and then no effect runs. *)
LoginAnswered(s) ==
  /\ calls[s].waits = "login"
  /\ token' = calls[s].by
  /\ effect' \in (IF token = calls[s].by THEN {effect, TRUE} ELSE {TRUE})
  /\ busy' = FALSE
  /\ Ends(s)
  /\ UNCHANGED <<owner, screen, broken>>

(* upload selects what it created, then refreshes; refresh takes the buttons
   again, which another handler may have freed. *)
UploadAnswered(s) ==
  /\ calls[s].waits = "upload" /\ calls[s].done
  /\ selected' = calls[s].doc
  /\ calls' = [calls EXCEPT ![s] = Refreshing(@.by, @.doc, @.asAdmin)]
  /\ busy' = TRUE
  /\ UNCHANGED <<owner, token, documents, detail, typed, effect, broken>>

(* saveField loads the document again. *)
SaveAnswered(s) ==
  /\ calls[s].waits = "save" /\ calls[s].done
  /\ calls' = [calls EXCEPT ![s] = Waiting("save", "detail", @.doc, @.by)]
  /\ UNCHANGED <<owner, token, screen, busy, effect, broken>>

(* submitReview refreshes, preferring what was selected when it was pressed. *)
SubmitAnswered(s) ==
  /\ calls[s].waits = "submit" /\ calls[s].done
  /\ calls' = [calls EXCEPT ![s] = Refreshing(@.by, @.preferred, @.asAdmin)]
  /\ busy' = TRUE
  /\ UNCHANGED <<owner, token, screen, effect, broken>>

(* refresh has the list and, if it asked, the admin status; it goes on to the
   preferred document or else the first. *)
ListAnswered(s) ==
  LET call == calls[s]
      listed == {d \in Docs : owner[d] = call.by.tenant}
      Goes(next) ==
        /\ selected' = next
        /\ calls' = [calls EXCEPT ![s] = Waiting(@.handler, "detail", next, @.by)]
        /\ UNCHANGED <<detail, busy>>
  IN /\ call.waits = "list"
     /\ call.asAdmin => MayUse(Principal(call.by), "admin status")
     /\ documents' = listed
     /\ \/ call.preferred # None /\ Goes(call.preferred)
        \/ call.preferred = None /\ \E first \in listed : Goes(first)
        \/ /\ call.preferred = None /\ listed = {}
           /\ selected' = None /\ detail' = None
           /\ busy' = FALSE
           /\ Ends(s)
     /\ UNCHANGED <<owner, token, typed, effect, broken>>

(* Mutant of DetailAnswered: the selection is left to whoever asked. *)
DetailLeavesSelection(s) ==
  LET call == calls[s]
  IN /\ call.waits = "detail"
     /\ IsOwn(call.doc, call.by.tenant)
     /\ detail' = call.doc /\ typed' = call.doc
     /\ broken' = FALSE
     /\ busy' = IF call.handler = "click" THEN busy ELSE FALSE
     /\ Ends(s)
     /\ UNCHANGED <<owner, token, documents, selected, effect>>

(* loadDetail ends the handler that called it. *)
DetailAnswered(s) ==
  LET call == calls[s]
  IN /\ call.waits = "detail"
     /\ IsOwn(call.doc, call.by.tenant)
     /\ selected' = call.doc /\ detail' = call.doc /\ typed' = call.doc
     /\ broken' = FALSE
     /\ busy' = IF call.handler = "click" THEN busy ELSE FALSE
     /\ Ends(s)
     /\ UNCHANGED <<owner, token, documents, effect>>

(* Mutant of CallFails: no finally. *)
CallFailsBusy(s) ==
  /\ ~IsFree(s)
  /\ broken' = TRUE
  /\ Ends(s)
  /\ UNCHANGED <<owner, token, screen, busy, effect>>

(* A call fails: refused, or its answer lost, whatever the API did.  The catch
   of the handler shows a message, and its finally frees the buttons; a click
   has neither. *)
CallFails(s) ==
  /\ ~IsFree(s)
  /\ broken' = TRUE
  /\ busy' = IF calls[s].handler = "click" THEN busy ELSE FALSE
  /\ Ends(s)
  /\ UNCHANGED <<owner, token, screen, effect>>

Answered(s) ==
  /\ ~IsFree(s)
  /\ LoginAnswered(s) \/ UploadAnswered(s) \/ SaveAnswered(s) \/ SubmitAnswered(s)
     \/ ListAnswered(s) \/ DetailAnswered(s)

Next ==
  \E s \in Slots :
    \/ \E form \in SignIns : SignIn(s, form)
    \/ \E asAdmin \in BOOLEAN : PressRefresh(s, asAdmin) \/ RunEffect(s, asAdmin)
    \/ \E d \in Docs : ClickRow(s, d)
    \/ \E d \in Docs, asAdmin \in BOOLEAN : PressUpload(s, d, asAdmin)
    \/ PressSave(s)
    \/ \E asAdmin \in BOOLEAN : PressSubmit(s, asAdmin)
    \/ ServeWrite(s)
    \/ Answered(s)
    \/ CallFails(s)

(* A fetch settles in the end: the browser answers or rejects it. *)
Fairness == \A s \in Slots : WF_vars(Answered(s) \/ CallFails(s))

Spec == Init /\ [][Next]_vars /\ Fairness

-----------------------------------------------------------------------------
Handlers ==
  [handler : {"login", "refresh", "click", "upload", "save", "submit"},
   waits : {"login", "list", "detail", "upload", "save", "submit"},
   doc : Docs \union {None}, by : Tokens, preferred : Docs \union {None},
   asAdmin : BOOLEAN, holds : Docs \union {None}, done : BOOLEAN]

Shown == Docs \union {None}

(* Every variable stays in its type, and a screen with documents on it has a
   token behind it. *)
TypeOK ==
  /\ owner \in [Docs -> Tenants \union {None}]
  /\ token \in Tokens \union {None}
  /\ documents \subseteq Docs
  /\ selected \in Shown /\ detail \in Shown /\ typed \in Shown
  /\ token = None => documents = {} /\ detail = None /\ ~effect
  /\ busy \in BOOLEAN /\ effect \in BOOLEAN /\ broken \in BOOLEAN
  /\ calls \in [Slots -> Handlers \union {Idle}]

(* Whatever the screen still shows when a user signs in as someone else, and
   whichever answer comes late: a write that is carried out is on a document of
   its caller's tenant, by a caller whose role allows it, and a correction holds
   the values the inputs showed for that very document. *)
WritesAreTheCallers ==
  \A s \in Slots :
    calls[s] # Idle /\ calls[s].done =>
      /\ owner[calls[s].doc] = calls[s].by.tenant
      /\ calls[s].handler = "upload" \/ calls[s].by.roles \subseteq {"reviewer", "admin"}
      /\ calls[s].handler \in {"save", "submit"} => calls[s].holds = calls[s].doc

Quiet == ~effect /\ \A s \in Slots : IsFree(s)

(* When nothing is under way, the row that is marked in the list is the document
   whose detail is shown, unless a call failed since a detail was last loaded;
   so overlapping loads settle on one document. *)
MismatchIsExplained == Quiet /\ ~broken => selected = detail

(* The buttons are disabled only while a handler is there that will enable them,
   though handlers overlap and free them for one another. *)
BusyHasAReason ==
  busy => \E s \in Slots : calls[s] # Idle /\ calls[s].handler # "click"

(* The buttons are not disabled for good, whatever fails. *)
BusyEnds == busy ~> ~busy
=============================================================================
