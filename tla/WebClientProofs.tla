-------------------------- MODULE WebClientProofs --------------------------
(***************************************************************************)
(* Safety of the client and of what it makes the API do, for any number of *)
(* documents, tenants and handlers under way.                              *)
(***************************************************************************)
EXTENDS WebClient, TLAPS

(* The correction inputs hold the values of the document that is shown. *)
InputsAreTheDetails == detail # None => typed = detail

(* A selection that is not shown has a load on its way, or a failure behind it. *)
LoadIsComing ==
  selected # detail /\ ~broken =>
    \E s \in Slots : /\ calls[s] # Idle
                     /\ \/ calls[s].waits = "detail"
                        \/ calls[s].waits = "list" /\ calls[s].preferred # None

(* Only a sign-in is under way before the first one succeeded. *)
SignInFirst == token = None => \A s \in Slots : calls[s] # Idle => calls[s].waits = "login"

(* What a handler of a certain kind waits for and carries. *)
HandlerOK(call) ==
  /\ call.waits = "login" => call.handler = "login" /\ ~call.done
  /\ call.waits \in {"list", "detail"} => call.handler # "login" /\ ~call.done
  /\ call.waits = "list" => call.handler = "refresh"
  /\ call.waits \in {"upload", "save", "submit"} => call.handler = call.waits
  /\ call.waits \in {"detail", "upload", "save", "submit"} => call.doc # None
  /\ call.waits \in {"save", "submit"} => call.holds = call.doc

ClientInv ==
  /\ TypeOK
  /\ InputsAreTheDetails
  /\ LoadIsComing
  /\ SignInFirst
  /\ \A s \in Slots : calls[s] # Idle => HandlerOK(calls[s])
  /\ WritesAreTheCallers
  /\ BusyHasAReason

-----------------------------------------------------------------------------
(* The records handlers start and go on with. *)
LEMMA WaitingType ==
  ASSUME NEW name \in {"login", "refresh", "click", "upload", "save", "submit"},
         NEW waits \in {"login", "list", "detail", "upload", "save", "submit"},
         NEW doc \in Docs \union {None}, NEW by \in Tokens
  PROVE  /\ Waiting(name, waits, doc, by) \in Handlers
         /\ Waiting(name, waits, doc, by) # Idle
         /\ Waiting(name, waits, doc, by).handler = name
         /\ Waiting(name, waits, doc, by).waits = waits
         /\ Waiting(name, waits, doc, by).doc = doc
         /\ Waiting(name, waits, doc, by).by = by
         /\ ~Waiting(name, waits, doc, by).done
         /\ Waiting(name, waits, doc, by).preferred = None
  BY DEF Waiting, Handlers, Idle

(* A refresh is a record of that kind which waits for the list. *)
LEMMA RefreshingType ==
  ASSUME NEW by \in Tokens, NEW preferred \in Docs \union {None}, NEW asAdmin \in BOOLEAN
  PROVE  /\ Refreshing(by, preferred, asAdmin) \in Handlers
         /\ Refreshing(by, preferred, asAdmin) # Idle
         /\ Refreshing(by, preferred, asAdmin).handler = "refresh"
         /\ Refreshing(by, preferred, asAdmin).waits = "list"
         /\ Refreshing(by, preferred, asAdmin).preferred = preferred
         /\ ~Refreshing(by, preferred, asAdmin).done
  BY DEF Refreshing, Waiting, Handlers, Idle

(* A token of a sign-in: one role, one tenant, a principal of its own. *)
LEMMA TokenFacts ==
  ASSUME WebClientAssumption, NEW by \in Tokens
  PROVE  /\ by.tenant \in Tenants
         /\ \E role \in Roles : by.roles = {role}
         /\ Principal(by).roles = by.roles /\ Principal(by).tenant = by.tenant
         /\ "roles" \in DOMAIN Principal(by)
<1>1. PICK form \in SignIns : by = IssuedFor(form.username, form.tenant)
  BY DEF Tokens
<1>2. form.username \in Roles /\ form.tenant \in Tenants
  BY DEF WebClientAssumption
<1>3. by.roles = {form.username} /\ by.tenant = form.tenant
  BY <1>1 DEF IssuedFor
<1>4. by.roles \intersect AllRoles = by.roles /\ by.roles # {}
  BY <1>2, <1>3 DEF AllRoles
<1>5. Principal(by) = by
  BY <1>1, <1>4 DEF Principal, IssuedFor
<1>6. "roles" \in DOMAIN by
  BY <1>1 DEF IssuedFor
<1> QED BY <1>2, <1>3, <1>5, <1>6

-----------------------------------------------------------------------------
(* The screen is empty when it is first shown. *)
LEMMA InitClientInv == WebClientAssumption /\ Init => ClientInv
  BY DEF WebClientAssumption, Init, ClientInv, TypeOK, Shown, InputsAreTheDetails, LoadIsComing,
         SignInFirst, WritesAreTheCallers, BusyHasAReason

(* A handler that starts, with nothing done, changes its slot and perhaps the
   busy flag. *)
LEMMA StartStep ==
  ASSUME ClientInv, NEW s \in Slots, NEW call \in Handlers, Starts(s, call), call # Idle,
         HandlerOK(call), ~call.done,
         \/ busy' = TRUE /\ call.handler # "click"
         \/ busy' = busy,
         effect' \in BOOLEAN, effect' => effect, token = None => call.waits = "login",
         UNCHANGED <<owner, token, screen, broken>>
  PROVE  ClientInv'
<1>1. /\ calls \in [Slots -> Handlers \union {Idle}]
      /\ calls[s] = Idle
      /\ calls' = [calls EXCEPT ![s] = call]
      /\ calls' \in [Slots -> Handlers \union {Idle}]
      /\ calls'[s] = call
      /\ \A r \in Slots : r # s => calls'[r] = calls[r]
  BY DEF ClientInv, TypeOK, Starts, IsFree
<1>2. UNCHANGED <<owner, token, documents, selected, detail, typed, broken>>
  BY DEF screen
<1>3. TypeOK'
  BY <1>1, <1>2 DEF ClientInv, TypeOK, Handlers, Tokens, Shown
<1>4. InputsAreTheDetails'
  BY <1>2 DEF ClientInv, InputsAreTheDetails
<1>5. LoadIsComing'
  BY <1>1, <1>2 DEF ClientInv, LoadIsComing
<1>6. \A r \in Slots : (calls[r] # Idle)' => HandlerOK(calls[r])'
  BY <1>1 DEF ClientInv, HandlerOK
<1>7. WritesAreTheCallers'
  BY <1>1, <1>2 DEF ClientInv, WritesAreTheCallers
<1>8. BusyHasAReason'
  BY <1>1 DEF ClientInv, BusyHasAReason
<1>9. SignInFirst'
  BY <1>1, <1>2 DEF ClientInv, SignInFirst
<1> QED BY <1>3, <1>4, <1>5, <1>6, <1>7, <1>8, <1>9 DEF ClientInv

(* The buttons start handlers whose documents, tokens and inputs fit. *)
LEMMA ButtonStep ==
  ASSUME WebClientAssumption, ClientInv, NEW s \in Slots,
         \/ \E form \in SignIns : SignIn(s, form)
         \/ \E asAdmin \in BOOLEAN : PressRefresh(s, asAdmin) \/ RunEffect(s, asAdmin)
         \/ \E d \in Docs : ClickRow(s, d)
         \/ \E d \in Docs, asAdmin \in BOOLEAN : PressUpload(s, d, asAdmin)
         \/ PressSave(s)
         \/ \E asAdmin \in BOOLEAN : PressSubmit(s, asAdmin)
  PROVE  ClientInv'
<1>0. /\ token # None => token \in Tokens
      /\ selected \in Docs \union {None} /\ detail \in Docs \union {None}
      /\ typed \in Docs \union {None}
      /\ documents \subseteq Docs /\ effect \in BOOLEAN
      /\ token = None => documents = {} /\ detail = None /\ ~effect
      /\ None \notin Docs
  BY DEF ClientInv, TypeOK, Shown, WebClientAssumption
<1>1. ASSUME NEW form \in SignIns, SignIn(s, form) PROVE ClientInv'
  <2> DEFINE call == Waiting("login", "login", None, IssuedFor(form.username, form.tenant))
  <2>1. IssuedFor(form.username, form.tenant) \in Tokens
    BY DEF Tokens
  <2>2. /\ call \in Handlers /\ call # Idle /\ ~call.done
        /\ call.handler = "login" /\ call.waits = "login"
    BY <2>1, WaitingType
  <2> QED BY <1>0, <1>1, <2>2, StartStep DEF SignIn, HandlerOK
<1>2. ASSUME NEW asAdmin \in BOOLEAN, PressRefresh(s, asAdmin) \/ RunEffect(s, asAdmin)
      PROVE  ClientInv'
  <2> DEFINE call == Refreshing(token, selected, asAdmin)
  <2>1. token \in Tokens
    BY <1>0, <1>2 DEF PressRefresh, RunEffect
  <2>2. /\ call \in Handlers /\ call # Idle /\ ~call.done
        /\ call.handler = "refresh" /\ call.waits = "list"
    BY <1>0, <2>1, RefreshingType
  <2>3. HandlerOK(call)
    BY <2>2 DEF HandlerOK
  <2>4. CASE PressRefresh(s, asAdmin)
    BY <1>0, <2>2, <2>3, <2>4, StartStep DEF PressRefresh
  <2>5. CASE RunEffect(s, asAdmin)
    BY <1>0, <2>2, <2>3, <2>5, StartStep DEF RunEffect
  <2> QED BY <1>2, <2>4, <2>5
<1>3. ASSUME NEW d \in Docs, ClickRow(s, d) PROVE ClientInv'
  <2> DEFINE call == Waiting("click", "detail", d, token)
  <2>1. token \in Tokens
    BY <1>0, <1>3 DEF ClickRow
  <2>2. /\ call \in Handlers /\ call # Idle /\ ~call.done
        /\ call.handler = "click" /\ call.waits = "detail" /\ call.doc = d
    BY <2>1, WaitingType
  <2> QED BY <1>0, <1>3, <2>2, StartStep DEF ClickRow, HandlerOK
<1>4. ASSUME NEW d \in Docs, NEW asAdmin \in BOOLEAN, PressUpload(s, d, asAdmin)
      PROVE  ClientInv'
  <2> DEFINE first == Waiting("upload", "upload", d, token)
             call == [first EXCEPT !.asAdmin = asAdmin]
  <2>1. token \in Tokens
    BY <1>0, <1>4 DEF PressUpload
  <2>2. /\ call \in Handlers /\ call # Idle /\ ~call.done
        /\ call.handler = "upload" /\ call.waits = "upload" /\ call.doc = d
    BY <2>1 DEF Waiting, Handlers, Idle
  <2> QED BY <1>0, <1>4, <2>2, StartStep DEF PressUpload, HandlerOK
<1>5. CASE PressSave(s)
  <2> DEFINE first == Waiting("save", "save", detail, token)
             call == [first EXCEPT !.holds = typed]
  <2>1. token \in Tokens
    BY <1>0, <1>5 DEF PressSave
  <2>2. /\ call \in Handlers /\ call # Idle /\ ~call.done
        /\ call.handler = "save" /\ call.waits = "save" /\ call.doc = detail
    BY <1>0, <2>1 DEF Waiting, Handlers, Idle
  <2>3. call.holds = typed
    BY DEF Waiting
  <2>4. typed = detail
    BY <1>5 DEF ClientInv, InputsAreTheDetails, PressSave
  <2> QED BY <1>0, <1>5, <2>2, <2>3, <2>4, StartStep DEF PressSave, HandlerOK
<1>6. ASSUME NEW asAdmin \in BOOLEAN, PressSubmit(s, asAdmin) PROVE ClientInv'
  <2> DEFINE first == Waiting("submit", "submit", detail, token)
             call == [first EXCEPT !.preferred = selected, !.asAdmin = asAdmin, !.holds = detail]
  <2>1. token \in Tokens
    BY <1>0, <1>6 DEF PressSubmit
  <2>2. /\ call \in Handlers /\ call # Idle /\ ~call.done
        /\ call.handler = "submit" /\ call.waits = "submit" /\ call.doc = detail
    BY <1>0, <2>1 DEF Waiting, Handlers, Idle
  <2>3. call.holds = detail
    BY DEF Waiting
  <2> QED BY <1>0, <1>6, <2>2, <2>3, StartStep DEF PressSubmit, HandlerOK
<1> QED BY <1>1, <1>2, <1>3, <1>4, <1>5, <1>6
-----------------------------------------------------------------------------
(* The API carries out a write: its caller may, and its document is the
   caller's. *)
LEMMA ServeStep ==
  ASSUME WebClientAssumption, ClientInv, NEW s \in Slots, ServeWrite(s)
  PROVE  ClientInv'
<1> DEFINE call == calls[s]
<1>1. /\ calls \in [Slots -> Handlers \union {Idle}] /\ call # Idle /\ call \in Handlers
      /\ HandlerOK(call) /\ call.by \in Tokens /\ call.doc \in Docs
      /\ call.waits \in {"upload", "save", "submit"} /\ call.handler = call.waits
      /\ owner \in [Docs -> Tenants \union {None}]
  BY DEF ClientInv, TypeOK, ServeWrite, HandlerOK, Handlers
<1>2. /\ calls' = [calls EXCEPT ![s].done = TRUE]
      /\ UNCHANGED <<token, documents, selected, detail, typed, busy, effect, broken>>
  BY DEF ServeWrite, screen
<1>3. /\ calls'[s] \in Handlers /\ calls'[s] # Idle
      /\ calls'[s].handler = call.handler /\ calls'[s].waits = call.waits
      /\ calls'[s].doc = call.doc /\ calls'[s].by = call.by /\ calls'[s].holds = call.holds
      /\ calls'[s].preferred = call.preferred
      /\ \A r \in Slots : r # s => calls'[r] = calls[r]
      /\ calls' \in [Slots -> Handlers \union {Idle}]
  BY <1>1, <1>2 DEF Handlers, Idle
<1>4. /\ call.by.tenant \in Tenants /\ None \notin Tenants
      /\ Principal(call.by).tenant = call.by.tenant
      /\ \E role \in Roles : call.by.roles = {role}
      /\ Principal(call.by).roles = call.by.roles
  BY <1>1, TokenFacts DEF WebClientAssumption, Tokens, IssuedFor
<1>5. /\ owner'[call.doc] = call.by.tenant
      /\ \A d \in Docs : owner[d] # None => owner'[d] = owner[d]
      /\ owner' \in [Docs -> Tenants \union {None}]
  BY <1>1, <1>4 DEF ServeWrite, IsOwn
<1>6. call.handler = "upload" \/ call.by.roles \subseteq {"reviewer", "admin"}
  <2>1. SUFFICES ASSUME call.waits \in {"save", "submit"}
                 PROVE  call.by.roles \subseteq {"reviewer", "admin"}
    BY <1>1
  <2>2. call.by.roles \intersect {"reviewer", "admin"} # {}
    BY <1>4, <2>1 DEF ServeWrite, MayUse, RolesFor
  <2> QED BY <1>4, <2>2
<1>7. TypeOK'
  BY <1>2, <1>3, <1>5 DEF ClientInv, TypeOK, Handlers, Tokens, Shown
<1>8. InputsAreTheDetails'
  BY <1>2 DEF ClientInv, InputsAreTheDetails
<1>9. LoadIsComing'
  BY <1>1, <1>2, <1>3 DEF ClientInv, LoadIsComing
<1>10. \A r \in Slots : (calls[r] # Idle)' => HandlerOK(calls[r])'
  BY <1>1, <1>3 DEF ClientInv, HandlerOK
<1>11. WritesAreTheCallers'
  <2> SUFFICES ASSUME NEW r \in Slots, calls'[r] # Idle, calls'[r].done
               PROVE  /\ owner'[calls'[r].doc] = calls'[r].by.tenant
                      /\ calls'[r].handler = "upload"
                           \/ calls'[r].by.roles \subseteq {"reviewer", "admin"}
                      /\ calls'[r].handler \in {"save", "submit"} =>
                           calls'[r].holds = calls'[r].doc
    BY DEF WritesAreTheCallers
  <2>1. CASE r = s
    BY <1>1, <1>3, <1>5, <1>6, <2>1 DEF HandlerOK
  <2>2. CASE r # s
    <3>1. calls'[r] = calls[r] /\ calls[r] \in Handlers /\ HandlerOK(calls[r])
      BY <1>1, <1>3, <2>2 DEF ClientInv
    <3>2. /\ owner[calls[r].doc] = calls[r].by.tenant
          /\ calls[r].handler = "upload" \/ calls[r].by.roles \subseteq {"reviewer", "admin"}
          /\ calls[r].handler \in {"save", "submit"} => calls[r].holds = calls[r].doc
      BY <3>1 DEF ClientInv, WritesAreTheCallers
    <3>3. calls[r].by \in Tokens /\ calls[r].by.tenant # None
      BY <3>1, <1>4, TokenFacts DEF Handlers, Tokens, IssuedFor, WebClientAssumption
    <3>4. calls[r].doc \in Docs
      BY <3>1 DEF HandlerOK, Handlers
    <3> QED BY <1>5, <3>1, <3>2, <3>3, <3>4
  <2> QED BY <2>1, <2>2
<1>12. BusyHasAReason'
  BY <1>1, <1>2, <1>3 DEF ClientInv, BusyHasAReason
<1>13. SignInFirst'
  BY <1>1, <1>2, <1>3 DEF ClientInv, SignInFirst
<1> QED BY <1>7, <1>8, <1>9, <1>10, <1>11, <1>12, <1>13 DEF ClientInv
(* A handler ends: with the buttons free, unless it was a click. *)
LEMMA EndStep ==
  ASSUME ClientInv, TypeOK', InputsAreTheDetails', LoadIsComing', NEW s \in Slots,
         calls[s] # Idle, Ends(s), UNCHANGED owner, token' = None => token = None,
         busy' = FALSE \/ (busy' = busy /\ calls[s].handler = "click")
  PROVE  ClientInv'
<1>1. /\ calls'[s] = Idle
      /\ \A r \in Slots : r # s => calls'[r] = calls[r]
  BY DEF ClientInv, TypeOK, Ends
<1>2. \A r \in Slots : (calls[r] # Idle)' => HandlerOK(calls[r])'
  BY <1>1 DEF ClientInv, HandlerOK
<1>3. WritesAreTheCallers'
  BY <1>1 DEF ClientInv, WritesAreTheCallers
<1>4. BusyHasAReason'
  BY <1>1 DEF ClientInv, BusyHasAReason
<1>5. SignInFirst'
  BY <1>1 DEF ClientInv, SignInFirst
<1> QED BY <1>2, <1>3, <1>4, <1>5 DEF ClientInv

(* A handler goes on to its next call, a refresh or a load. *)
LEMMA GoOnStep ==
  ASSUME ClientInv, TypeOK', InputsAreTheDetails', NEW s \in Slots, NEW next,
         calls[s] # Idle, calls' = [calls EXCEPT ![s] = next], next # Idle,
         HandlerOK(next), ~next.done, next.handler # "click",
         \/ next.waits = "detail"
         \/ next.waits = "list" /\ next.preferred # None
         \/ /\ UNCHANGED <<selected, detail, broken>>
            /\ calls[s].waits \notin {"list", "detail"},
         UNCHANGED <<owner, token>>, token # None
  PROVE  ClientInv'
<1>1. /\ calls'[s] = next
      /\ \A r \in Slots : r # s => calls'[r] = calls[r]
  BY DEF ClientInv, TypeOK
<1>2. \A r \in Slots : (calls[r] # Idle)' => HandlerOK(calls[r])'
  BY <1>1 DEF ClientInv, HandlerOK
<1>3. WritesAreTheCallers'
  BY <1>1 DEF ClientInv, WritesAreTheCallers
<1>4. BusyHasAReason'
  BY <1>1 DEF ClientInv, BusyHasAReason
<1>5. LoadIsComing'
  BY <1>1 DEF ClientInv, LoadIsComing
<1>6. SignInFirst'
  BY DEF SignInFirst
<1> QED BY <1>2, <1>3, <1>4, <1>5, <1>6 DEF ClientInv

(* An answer, and what the handler does with it. *)
LEMMA AnswerStep ==
  ASSUME WebClientAssumption, ClientInv, NEW s \in Slots, Answered(s)
  PROVE  ClientInv'
<1> DEFINE call == calls[s]
<1>1. /\ calls \in [Slots -> Handlers \union {Idle}] /\ call # Idle /\ call \in Handlers
      /\ HandlerOK(call) /\ call.by \in Tokens /\ None \notin Docs
      /\ call.doc \in Docs \union {None} /\ call.preferred \in Docs \union {None}
      /\ call.asAdmin \in BOOLEAN
      /\ call.handler \in {"login", "refresh", "click", "upload", "save", "submit"}
  BY DEF ClientInv, TypeOK, Answered, IsFree, Handlers, WebClientAssumption
<1>2. calls' = [calls EXCEPT ![s] = Idle] => calls' \in [Slots -> Handlers \union {Idle}]
  BY <1>1
<1>3. CASE LoginAnswered(s)
  <2>1. UNCHANGED <<owner, documents, selected, detail, typed, broken>>
    BY <1>3 DEF LoginAnswered, screen
  <2>2. /\ Ends(s) /\ busy' = FALSE /\ token' = call.by /\ effect' \in BOOLEAN
        /\ call.waits = "login"
    BY <1>3 DEF LoginAnswered, ClientInv, TypeOK
  <2>3. token' # None
    BY <1>1, <2>2 DEF ClientInv, TypeOK, Tokens, IssuedFor, WebClientAssumption
  <2>4. TypeOK'
    BY <1>1, <1>2, <2>1, <2>2, <2>3 DEF ClientInv, TypeOK, Ends, Handlers, Tokens, Shown
  <2>5. InputsAreTheDetails'
    BY <2>1 DEF ClientInv, InputsAreTheDetails
  <2>6. LoadIsComing'
    BY <1>1, <2>1, <2>2 DEF ClientInv, LoadIsComing, Ends
  <2> QED BY <1>1, <2>1, <2>2, <2>3, <2>4, <2>5, <2>6, EndStep
<1>4. CASE UploadAnswered(s)
  <2> DEFINE next == Refreshing(call.by, call.doc, call.asAdmin)
  <2>1. call.doc \in Docs
    BY <1>1, <1>4 DEF UploadAnswered, HandlerOK
  <2>2. /\ next \in Handlers /\ next # Idle /\ next.handler = "refresh" /\ ~next.done
        /\ next.waits = "list" /\ next.preferred = call.doc
    BY <1>1, RefreshingType
  <2>3. HandlerOK(next)
    BY <2>2 DEF HandlerOK
  <2>4. /\ calls' = [calls EXCEPT ![s] = next] /\ selected' = call.doc
        /\ busy' = TRUE
        /\ UNCHANGED <<owner, token, documents, detail, typed, effect, broken>>
    BY <1>4 DEF UploadAnswered
  <2>5. TypeOK'
    BY <1>1, <2>1, <2>2, <2>4 DEF ClientInv, TypeOK, Handlers, Tokens, Shown
  <2>6. InputsAreTheDetails'
    BY <2>4 DEF ClientInv, InputsAreTheDetails
  <2>7. token # None
    BY <1>1, <1>4 DEF UploadAnswered, ClientInv, SignInFirst
  <2> QED BY <1>1, <2>1, <2>2, <2>3, <2>4, <2>5, <2>6, <2>7, GoOnStep
<1>5. CASE SaveAnswered(s)
  <2> DEFINE load == Waiting("save", "detail", call.doc, call.by)
  <2>1. call.waits = "save" /\ call.doc \in Docs
    BY <1>1, <1>5 DEF SaveAnswered, HandlerOK
  <2>2. /\ load \in Handlers /\ load # Idle /\ load.handler = "save" /\ ~load.done
        /\ load.waits = "detail" /\ load.doc = call.doc
    BY <1>1, WaitingType
  <2>3. HandlerOK(load)
    BY <1>1, <2>1, <2>2 DEF HandlerOK
  <2>4. /\ calls' = [calls EXCEPT ![s] = load]
        /\ UNCHANGED <<owner, token, documents, selected, detail, typed, busy, effect, broken>>
    BY <1>5 DEF SaveAnswered, screen
  <2>5. TypeOK'
    BY <1>1, <2>2, <2>4 DEF ClientInv, TypeOK, Handlers, Tokens, Shown
  <2>6. InputsAreTheDetails'
    BY <2>4 DEF ClientInv, InputsAreTheDetails
  <2>7. token # None
    BY <1>1, <2>1 DEF ClientInv, SignInFirst
  <2> HIDE DEF load
  <2> QED BY <1>1, <2>2, <2>3, <2>4, <2>5, <2>6, <2>7, GoOnStep
<1>6. CASE SubmitAnswered(s)
  <2> DEFINE list == Refreshing(call.by, call.preferred, call.asAdmin)
  <2>1. call.waits = "submit"
    BY <1>6 DEF SubmitAnswered
  <2>2. /\ list \in Handlers /\ list # Idle /\ list.handler = "refresh" /\ ~list.done
        /\ list.waits = "list"
    BY <1>1, RefreshingType
  <2>3. HandlerOK(list)
    BY <2>2 DEF HandlerOK
  <2>4. /\ calls' = [calls EXCEPT ![s] = list] /\ busy' = TRUE
        /\ UNCHANGED <<owner, token, documents, selected, detail, typed, effect, broken>>
    BY <1>6 DEF SubmitAnswered, screen
  <2>5. TypeOK'
    BY <1>1, <2>2, <2>4 DEF ClientInv, TypeOK, Handlers, Tokens, Shown
  <2>6. InputsAreTheDetails'
    BY <2>4 DEF ClientInv, InputsAreTheDetails
  <2>7. UNCHANGED <<selected, detail, broken>> /\ call.waits \notin {"list", "detail"}
    BY <2>1, <2>4
  <2>8. token # None
    BY <1>1, <2>1 DEF ClientInv, SignInFirst
  <2> HIDE DEF list
  <2> QED BY <1>1, <2>2, <2>3, <2>4, <2>5, <2>6, <2>7, <2>8, GoOnStep
<1>7. CASE ListAnswered(s)
  <2> DEFINE listed == {d \in Docs : owner[d] = call.by.tenant}
  <2>1. /\ call.waits = "list" /\ documents' = listed
        /\ UNCHANGED <<owner, token, typed, effect, broken>>
    BY <1>7 DEF ListAnswered
  <2>2. token # None
    BY <1>1, <2>1 DEF ClientInv, SignInFirst
  <2>3. ASSUME NEW next \in Docs, selected' = next,
               calls' = [calls EXCEPT ![s] = Waiting(@.handler, "detail", next, @.by)],
               UNCHANGED <<detail, busy>>
        PROVE  ClientInv'
    <3> DEFINE load == Waiting(call.handler, "detail", next, call.by)
    <3>1. /\ load \in Handlers /\ load # Idle /\ load.handler = call.handler /\ ~load.done
          /\ load.waits = "detail" /\ load.doc = next
      BY <1>1, WaitingType
    <3>2. call.handler \notin {"login", "click"}
      BY <1>1, <2>1 DEF HandlerOK
    <3>3. HandlerOK(load)
      BY <1>1, <3>1, <3>2 DEF HandlerOK
    <3>4. TypeOK'
      BY <1>1, <2>1, <2>2, <2>3, <3>1 DEF ClientInv, TypeOK, Handlers, Tokens, Shown
    <3>5. InputsAreTheDetails'
      BY <2>1, <2>3 DEF ClientInv, InputsAreTheDetails
    <3>6. calls' = [calls EXCEPT ![s] = load]
      BY <2>3
    <3> HIDE DEF load
    <3> QED BY <1>1, <2>1, <2>3, <3>1, <3>2, <3>3, <3>4, <3>5, <3>6, <2>2, GoOnStep
  <2>4. CASE selected' = None /\ detail' = None /\ busy' = FALSE /\ Ends(s)
    <3>1. TypeOK'
      BY <1>1, <1>2, <2>1, <2>2, <2>4 DEF ClientInv, TypeOK, Ends, Handlers, Tokens, Shown
    <3>2. InputsAreTheDetails' /\ LoadIsComing'
      BY <2>4 DEF InputsAreTheDetails, LoadIsComing
    <3> QED BY <1>1, <2>1, <2>4, <3>1, <3>2, EndStep
  <2>5. \/ \E next \in Docs : /\ selected' = next
                              /\ calls' = [calls EXCEPT ![s] = Waiting(@.handler, "detail", next, @.by)]
                              /\ UNCHANGED <<detail, busy>>
        \/ selected' = None /\ detail' = None /\ busy' = FALSE /\ Ends(s)
    BY <1>1, <1>7 DEF ListAnswered
  <2> QED BY <2>3, <2>4, <2>5
<1>8. CASE DetailAnswered(s)
  <2>1. /\ selected' = call.doc /\ detail' = call.doc /\ typed' = call.doc
        /\ UNCHANGED <<owner, token, documents, effect>>
        /\ Ends(s) /\ broken' = FALSE
        /\ busy' = IF call.handler = "click" THEN busy ELSE FALSE
    BY <1>8 DEF DetailAnswered
  <2>2. token # None
    BY <1>1, <1>8 DEF DetailAnswered, ClientInv, SignInFirst
  <2>3. TypeOK'
    BY <1>1, <1>2, <2>1, <2>2 DEF ClientInv, TypeOK, Ends, Handlers, Tokens, Shown
  <2>4. InputsAreTheDetails' /\ LoadIsComing'
    BY <2>1 DEF InputsAreTheDetails, LoadIsComing
  <2> QED BY <1>1, <2>1, <2>3, <2>4, EndStep
<1> QED BY <1>3, <1>4, <1>5, <1>6, <1>7, <1>8 DEF Answered

(* A call that fails frees the buttons it held, and explains what the screen
   shows from then on. *)
LEMMA FailureStep ==
  ASSUME WebClientAssumption, ClientInv, NEW s \in Slots, CallFails(s)
  PROVE  ClientInv'
<1>1. /\ calls[s] # Idle /\ Ends(s) /\ broken' = TRUE
      /\ busy' = IF calls[s].handler = "click" THEN busy ELSE FALSE
      /\ UNCHANGED <<owner, token, documents, selected, detail, typed, effect>>
  BY DEF CallFails, IsFree, screen
<1>2. TypeOK'
  BY <1>1 DEF ClientInv, TypeOK, Ends, Handlers, Tokens, Shown
<1>3. InputsAreTheDetails'
  BY <1>1 DEF ClientInv, InputsAreTheDetails
<1>4. LoadIsComing'
  BY <1>1 DEF LoadIsComing
<1> QED BY <1>1, <1>2, <1>3, <1>4, EndStep

(* A stuttering step changes nothing the invariant reads. *)
LEMMA StutterStep ==
  ASSUME ClientInv, UNCHANGED vars
  PROVE  ClientInv'
<1>1. UNCHANGED <<owner, token, documents, selected, detail, typed, busy, effect, calls, broken>>
  BY DEF vars, screen
<1>2. TypeOK'
  BY <1>1 DEF ClientInv, TypeOK, Handlers, Tokens, Shown
<1>3. InputsAreTheDetails' /\ LoadIsComing' /\ SignInFirst'
  BY <1>1 DEF ClientInv, InputsAreTheDetails, LoadIsComing, SignInFirst
<1>4. \A s \in Slots : (calls[s] # Idle)' => HandlerOK(calls[s])'
  BY <1>1 DEF ClientInv, HandlerOK
<1>5. WritesAreTheCallers' /\ BusyHasAReason'
  BY <1>1 DEF ClientInv, WritesAreTheCallers, BusyHasAReason
<1> QED BY <1>2, <1>3, <1>4, <1>5 DEF ClientInv

(* What the results below rest on: the inputs belong to the detail, a selection
   that is not shown is being loaded, and every handler fits what it waits for. *)
THEOREM ClientInvariant == Spec => []ClientInv
<1>1. Init => ClientInv
  BY InitClientInv, WebClientAssumption
<1>2. ClientInv /\ [Next]_vars => ClientInv'
  <2> SUFFICES ASSUME ClientInv, [Next]_vars PROVE ClientInv'
    OBVIOUS
  <2>1. CASE UNCHANGED vars
    BY <2>1, StutterStep
  <2>2. ASSUME NEW s \in Slots, ServeWrite(s) PROVE ClientInv'
    BY <2>2, ServeStep, WebClientAssumption
  <2>3. ASSUME NEW s \in Slots, Answered(s) PROVE ClientInv'
    BY <2>3, AnswerStep, WebClientAssumption
  <2>4. ASSUME NEW s \in Slots, CallFails(s) PROVE ClientInv'
    BY <2>4, FailureStep, WebClientAssumption
  <2>5. ASSUME NEW s \in Slots,
               \/ \E form \in SignIns : SignIn(s, form)
               \/ \E asAdmin \in BOOLEAN : PressRefresh(s, asAdmin) \/ RunEffect(s, asAdmin)
               \/ \E d \in Docs : ClickRow(s, d)
               \/ \E d \in Docs, asAdmin \in BOOLEAN : PressUpload(s, d, asAdmin)
               \/ PressSave(s)
               \/ \E asAdmin \in BOOLEAN : PressSubmit(s, asAdmin)
        PROVE  ClientInv'
    BY <2>5, ButtonStep, WebClientAssumption
  <2> QED BY <2>1, <2>2, <2>3, <2>4, <2>5 DEF Next
<1> QED BY <1>1, <1>2, PTL DEF Spec

(* Every variable of the client and of the API keeps its type. *)
THEOREM ClientTypeCorrect == Spec => []TypeOK
<1>1. ClientInv => TypeOK
  BY DEF ClientInv
<1> QED BY <1>1, ClientInvariant, PTL

(* A write that is carried out is its caller's, on the document whose values
   were on the screen, however handlers and sign-ins overlap. *)
THEOREM WritesStayWithTheCaller == Spec => []WritesAreTheCallers
<1>1. ClientInv => WritesAreTheCallers
  BY DEF ClientInv
<1> QED BY <1>1, ClientInvariant, PTL

(* Disabled buttons have a handler that will free them. *)
THEOREM BusyIsAccountedFor == Spec => []BusyHasAReason
<1>1. ClientInv => BusyHasAReason
  BY DEF ClientInv
<1> QED BY <1>1, ClientInvariant, PTL

(* Overlapping loads settle on one document, unless a call failed. *)
THEOREM LoadsSettle == Spec => []MismatchIsExplained
<1>1. ClientInv => MismatchIsExplained
  BY DEF ClientInv, LoadIsComing, MismatchIsExplained, Quiet, IsFree
<1> QED BY <1>1, ClientInvariant, PTL
=============================================================================
