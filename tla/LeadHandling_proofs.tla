--------------------------- MODULE LeadHandling_proofs ---------------------------
(***************************************************************************)
(* What TLAPS proves of LeadHandling, for any number of leads, messages    *)
(* and requests.  A request is counted for what it is still going to       *)
(* record: the leads it adds to a phone number, the messages it has sent.  *)
(***************************************************************************)
EXTENDS LeadHandling, FiniteSetTheorems, TLAPS

\* A request that makes a lead is alone with it until it commits; the others
\* work on leads that are recorded.  Only intakes and reminders send, and an
\* intake only for its lead.
Sound(h) ==
    LET work == handler[h] IN
    /\ work.op = "idle" => work = NoWork
    /\ work.op \in {"intake", "patch"} => work.lead \in Lead
    /\ work.op \notin {"intake", "patch"} => work.lead = Nil
    /\ work.op = "patch" => work.todo = {} /\ work.sent = {}
    /\ work.op = "intake" => \A x \in work.todo \cup work.sent : x[1] = work.lead
    /\ work.op = "intake" /\ ~work.fresh => Recorded(work.lead)
    /\ work.op = "reminders" => \A x \in work.todo \cup work.sent : Recorded(x[1])
    /\ work.todo \cap work.sent = {}
    /\ work.fresh =>
          /\ work.op = "intake" /\ ~Recorded(work.lead)
          /\ \A v \in Handler : handler[v].lead = work.lead => v = h
HandlersAreSound == \A h \in Handler : Sound(h)

UnrecordedSentNothing == \A l \in Lead : ~Recorded(l) => lead[l].sent = {}

\* Requests that will give one more lead of an email the phone number p.
Adding(p) ==
    {h \in Handler : /\ handler[h].op = "intake" /\ handler[h].contact.phone = p
                     /\ handler[h].fresh \/ handler[h].loaded.phone = Nil}
AddingBounded ==
    \A p \in Phone :
        /\ IsFiniteSet(MadeByEmail(p))
        /\ Cardinality(MadeByEmail(p)) + Cardinality(Adding(p)) <= Cardinality(Handler)

\* Requests that have sent n and not yet recorded it.
Senders(l, n) == {h \in Handler : <<l, n>> \in handler[h].sent}
NoticesExplained ==
    \A l \in Lead, n \in Notice :
        /\ delivered[l][n] <= Cardinality(Handler) + failures
        /\ n \notin lead[l].sent => delivered[l][n] <= Cardinality(Senders(l, n)) + failures

LeadInv == LeadTypeOK /\ HandlersAreSound /\ UnrecordedSentNothing
           /\ AddingBounded /\ NoticesExplained

-----------------------------------------------------------------------------
LEMMA RowTypes ==
    /\ NoLead \in LeadRow /\ NoContact \in Contact /\ NothingLoaded \in Loaded
    /\ NoWork \in Work
BY DEF NoLead, LeadRow, LeadStatus, NoContact, Contact, NothingLoaded, Loaded, NoWork, Work

LEMMA SetsOfHandlers ==
    ASSUME NEW S \in SUBSET Handler
    PROVE  /\ IsFiniteSet(S) /\ Cardinality(S) \in Nat /\ Cardinality(Handler) \in Nat
           /\ Cardinality(S) <= Cardinality(Handler)
<1>1. IsFiniteSet(S) /\ Cardinality(S) <= Cardinality(Handler)
  BY FS_Subset, LeadAssumption
<1> QED BY <1>1, FS_CardinalityType, LeadAssumption

LEMMA InitLeadInv == LeadInit => LeadInv
<1> SUFFICES ASSUME LeadInit PROVE LeadInv
  OBVIOUS
<1> USE DEF LeadInit
<1>1. LeadTypeOK
  BY RowTypes DEF LeadTypeOK
<1>2. HandlersAreSound
  BY DEF HandlersAreSound, Sound, NoWork
<1>3. UnrecordedSentNothing
  BY DEF UnrecordedSentNothing, NoLead
<1>4. AddingBounded
  <2> SUFFICES ASSUME NEW p \in Phone
               PROVE  /\ IsFiniteSet(MadeByEmail(p))
                      /\ Cardinality(MadeByEmail(p)) + Cardinality(Adding(p)) <= Cardinality(Handler)
    BY DEF AddingBounded
  <2>1. MadeByEmail(p) = {} /\ Adding(p) = {}
    BY DEF MadeByEmail, NoLead, Adding, NoWork
  <2>2. Cardinality(Handler) \in Nat
    BY SetsOfHandlers
  <2> QED BY <2>1, <2>2, FS_EmptySet
<1>5. NoticesExplained
  <2> SUFFICES ASSUME NEW l \in Lead, NEW n \in Notice
               PROVE  /\ delivered[l][n] <= Cardinality(Handler) + failures
                      /\ delivered[l][n] <= Cardinality(Senders(l, n)) + failures
    BY DEF NoticesExplained
  <2>1. Senders(l, n) \subseteq Handler
    BY DEF Senders
  <2> QED BY <2>1, SetsOfHandlers
<1> QED BY <1>1, <1>2, <1>3, <1>4, <1>5 DEF LeadInv

-----------------------------------------------------------------------------
(* Counting *)

\* Nothing is added to a number by a step after which no more requests are
\* going to, and which makes no lead itself.
LEMMA AddsNothing ==
    ASSUME AddingBounded, NEW p \in Phone,
           MadeByEmail(p)' \subseteq MadeByEmail(p), Adding(p)' \subseteq Adding(p)
    PROVE  /\ IsFiniteSet(MadeByEmail(p)')
           /\ Cardinality(MadeByEmail(p)') + Cardinality(Adding(p)') <= Cardinality(Handler)
<1>1. /\ IsFiniteSet(MadeByEmail(p)')
      /\ Cardinality(MadeByEmail(p)') <= Cardinality(MadeByEmail(p))
      /\ Cardinality(MadeByEmail(p)') \in Nat /\ Cardinality(MadeByEmail(p)) \in Nat
  BY FS_Subset, FS_CardinalityType DEF AddingBounded
<1>2. IsFiniteSet(Adding(p)) /\ Cardinality(Adding(p)) \in Nat /\ Cardinality(Handler) \in Nat
  <2>1. Adding(p) \in SUBSET Handler
    BY DEF Adding
  <2> QED BY <2>1, SetsOfHandlers
<1>3. Cardinality(Adding(p)') <= Cardinality(Adding(p)) /\ Cardinality(Adding(p)') \in Nat
  BY <1>2, FS_Subset, FS_CardinalityType
<1>4. Cardinality(MadeByEmail(p)) + Cardinality(Adding(p)) <= Cardinality(Handler)
  BY DEF AddingBounded
<1> QED BY <1>1, <1>2, <1>3, <1>4

\* A step that records nothing and delivers nothing.
LEMMA SendsNothing ==
    ASSUME LeadTypeOK, NoticesExplained, NEW l \in Lead, NEW n \in Notice,
           delivered'[l][n] = delivered[l][n], failures' = failures,
           n \notin lead'[l].sent => n \notin lead[l].sent /\ Senders(l, n)' = Senders(l, n)
    PROVE  /\ delivered'[l][n] <= Cardinality(Handler) + failures'
           /\ n \notin lead'[l].sent => delivered'[l][n] <= Cardinality(Senders(l, n)') + failures'
BY DEF NoticesExplained

\* Steps that leave the leads alone and change the work of one request.
LEMMA HandlerMoves ==
    ASSUME LeadInv, UNCHANGED <<lead, delivered, failures>>, requests' \in Nat,
           NEW h \in Handler, NEW q \in Work, handler' = [handler EXCEPT ![h] = q],
           Sound(h)', q.sent = handler[h].sent,
           \A v \in Handler \ {h} : q.lead # Nil /\ q.lead = handler[v].lead => ~handler[v].fresh,
           \A p \in Phone : Adding(p)' \subseteq Adding(p) \/ MadeByEmail(p) = {}
    PROVE  LeadInv'
<1> USE DEF LeadInv
<1>1. LeadTypeOK'
  BY DEF LeadTypeOK
<1>2. \A v \in Handler \ {h} : handler'[v] = handler[v]
  BY DEF LeadTypeOK
<1>3. HandlersAreSound'
  <2> SUFFICES ASSUME NEW v \in Handler \ {h} PROVE Sound(v)'
    BY DEF HandlersAreSound
  <2>1. Sound(v) /\ handler'[v] = handler[v] /\ handler'[h] = q
    BY <1>2 DEF HandlersAreSound, LeadTypeOK
  <2>2. handler[v].fresh => handler[v].lead # Nil
    BY <2>1, LeadAssumption DEF Sound
  <2>3. handler[v].fresh => q.lead # handler[v].lead
    BY <2>2
  <2> QED BY <1>2, <2>1, <2>3 DEF Sound, Recorded
<1>4. UnrecordedSentNothing'
  BY DEF UnrecordedSentNothing, Recorded
<1>5. AddingBounded'
  <2> SUFFICES ASSUME NEW p \in Phone
               PROVE  /\ IsFiniteSet(MadeByEmail(p)')
                      /\ Cardinality(MadeByEmail(p)') + Cardinality(Adding(p)') <= Cardinality(Handler)
    BY DEF AddingBounded
  <2>1. MadeByEmail(p)' = MadeByEmail(p)
    BY DEF MadeByEmail
  <2>2. CASE Adding(p)' \subseteq Adding(p)
    BY <2>1, <2>2, AddsNothing
  <2>3. CASE MadeByEmail(p) = {}
    <3>1. Adding(p)' \in SUBSET Handler
      BY DEF Adding
    <3>2. Cardinality(Adding(p)') <= Cardinality(Handler) /\ Cardinality(Adding(p)') \in Nat
      BY <3>1, SetsOfHandlers
    <3> QED BY <2>1, <2>3, <3>2, FS_EmptySet
  <2> QED BY <2>2, <2>3
<1>6. NoticesExplained'
  <2> SUFFICES ASSUME NEW l \in Lead, NEW n \in Notice
               PROVE  /\ delivered'[l][n] <= Cardinality(Handler) + failures'
                      /\ n \notin lead'[l].sent =>
                            delivered'[l][n] <= Cardinality(Senders(l, n)') + failures'
    BY DEF NoticesExplained
  <2>1. Senders(l, n)' = Senders(l, n)
    BY <1>2 DEF Senders, LeadTypeOK
  <2> QED BY <2>1, SendsNothing
<1> QED BY <1>1, <1>3, <1>4, <1>5, <1>6

\* Commits: the work of one request ends and leads are written.
LEMMA CommitMoves ==
    ASSUME LeadInv, UNCHANGED <<delivered, failures, requests>>,
           NEW h \in Handler, handler' = [handler EXCEPT ![h] = NoWork],
           lead' \in [Lead -> LeadRow],
           \A l \in Lead : lead'[l].source = lead[l].source \/ (l = handler[h].lead /\ handler[h].fresh),
           \A l \in Lead : lead'[l].sent = lead[l].sent \cup SentBy(h, l),
           \A l \in Lead : lead'[l].sent # lead[l].sent => lead'[l].source # "none",
           \A p \in Phone : h \notin Adding(p) => MadeByEmail(p)' \subseteq MadeByEmail(p),
           \A p \in Phone : MadeByEmail(p)' \subseteq MadeByEmail(p) \cup {handler[h].lead}
    PROVE  LeadInv'
<1> USE DEF LeadInv
<1>1. LeadTypeOK'
  BY RowTypes DEF LeadTypeOK
<1>2. /\ \A v \in Handler \ {h} : handler'[v] = handler[v]
      /\ handler'[h] = NoWork
  BY DEF LeadTypeOK
<1>3. \A v \in Handler \ {h}, l \in Lead : handler[v].lead = l => (Recorded(l)' <=> Recorded(l))
  BY DEF HandlersAreSound, Sound, Recorded
<1>4. \A l \in Lead : Recorded(l) => Recorded(l)'
  <2>1. Sound(h)
    BY DEF HandlersAreSound
  <2> QED BY <2>1 DEF Sound, Recorded
<1>5. HandlersAreSound'
  <2>1. Sound(h)'
    BY <1>2 DEF Sound, NoWork
  <2>2. ASSUME NEW v \in Handler \ {h} PROVE Sound(v)'
    <3>1. Sound(v) /\ handler'[v] = handler[v] /\ handler[v] \in Work
      BY <1>2 DEF HandlersAreSound, LeadTypeOK
    <3>2. handler[v].fresh => handler[v].lead \in Lead /\ handler'[h].lead # handler[v].lead
      BY <1>2, <3>1, LeadAssumption DEF Sound, NoWork
    <3>3. \A x \in handler[v].todo \cup handler[v].sent : x[1] \in Lead
      BY <3>1 DEF Work
    <3> QED BY <1>2, <1>3, <1>4, <3>1, <3>2, <3>3 DEF Sound
  <2> QED BY <2>1, <2>2 DEF HandlersAreSound
<1>6. UnrecordedSentNothing'
  BY <1>4 DEF UnrecordedSentNothing, Recorded
<1>7. AddingBounded'
  <2> SUFFICES ASSUME NEW p \in Phone
               PROVE  /\ IsFiniteSet(MadeByEmail(p)')
                      /\ Cardinality(MadeByEmail(p)') + Cardinality(Adding(p)') <= Cardinality(Handler)
    BY DEF AddingBounded
  <2>1. Adding(p)' = Adding(p) \ {h}
    BY <1>2 DEF Adding, NoWork
  <2>2. CASE h \notin Adding(p)
    BY <2>1, <2>2, AddsNothing
  <2>3. CASE h \in Adding(p)
    <3> DEFINE l == handler[h].lead
    <3>1. IsFiniteSet(MadeByEmail(p)) /\ Cardinality(MadeByEmail(p)) \in Nat
          /\ Cardinality(MadeByEmail(p)) + Cardinality(Adding(p)) <= Cardinality(Handler)
      BY FS_CardinalityType DEF AddingBounded
    <3>2. IsFiniteSet(MadeByEmail(p) \cup {l})
          /\ Cardinality(MadeByEmail(p) \cup {l}) <= Cardinality(MadeByEmail(p)) + 1
          /\ Cardinality(MadeByEmail(p) \cup {l}) \in Nat
      <4> HIDE DEF l
      <4>1. IsFiniteSet(MadeByEmail(p) \cup {l})
        BY <3>1, FS_AddElement
      <4>2. Cardinality(MadeByEmail(p) \cup {l})
               = IF l \in MadeByEmail(p) THEN Cardinality(MadeByEmail(p))
                                         ELSE Cardinality(MadeByEmail(p)) + 1
        BY <3>1, FS_AddElement
      <4> QED BY <3>1, <4>1, <4>2
    <3>3. MadeByEmail(p)' \in SUBSET (MadeByEmail(p) \cup {l})
      OBVIOUS
    <3>4. IsFiniteSet(MadeByEmail(p)') /\ Cardinality(MadeByEmail(p)') \in Nat
          /\ Cardinality(MadeByEmail(p)') <= Cardinality(MadeByEmail(p) \cup {l})
      BY <3>2, <3>3, FS_Subset, FS_CardinalityType
    <3>5. Adding(p) \in SUBSET Handler
      BY DEF Adding
    <3>6. IsFiniteSet(Adding(p)) /\ Cardinality(Adding(p)) \in Nat /\ Cardinality(Handler) \in Nat
      BY <3>5, SetsOfHandlers
    <3>7. Cardinality(Adding(p)') = Cardinality(Adding(p)) - 1
      BY <2>1, <2>3, <3>6, FS_RemoveElement
    <3> QED BY <3>1, <3>2, <3>4, <3>6, <3>7
  <2> QED BY <2>2, <2>3
<1>8. NoticesExplained'
  <2> SUFFICES ASSUME NEW l \in Lead, NEW n \in Notice
               PROVE  /\ delivered'[l][n] <= Cardinality(Handler) + failures'
                      /\ n \notin lead'[l].sent =>
                            delivered'[l][n] <= Cardinality(Senders(l, n)') + failures'
    BY DEF NoticesExplained
  <2>1. n \notin lead'[l].sent => n \notin lead[l].sent /\ h \notin Senders(l, n)
    BY DEF SentBy, Senders
  <2>2. Senders(l, n)' = Senders(l, n) \ {h}
    BY <1>2 DEF Senders, NoWork
  <2>3. n \notin lead'[l].sent => n \notin lead[l].sent /\ Senders(l, n)' = Senders(l, n)
    BY <2>1, <2>2
  <2> QED BY <2>3, SendsNothing
<1> QED BY <1>1, <1>5, <1>6, <1>7, <1>8

\* Leads change under the requests: what is sent stays, what is recorded too.
LEMMA LeadsMove ==
    ASSUME LeadInv, UNCHANGED <<delivered, handler, requests, failures>>,
           lead' \in [Lead -> LeadRow],
           \A l \in Lead : lead'[l].sent = lead[l].sent,
           \A l \in Lead : Recorded(l) => Recorded(l)',
           \A l \in Lead : (\E h \in Handler : handler[h].lead = l) => (Recorded(l)' => Recorded(l)),
           \A p \in Phone : MadeByEmail(p)' \subseteq MadeByEmail(p)
    PROVE  LeadInv'
<1> USE DEF LeadInv
<1>1. LeadTypeOK'
  BY DEF LeadTypeOK
<1>2. HandlersAreSound'
  <2> SUFFICES ASSUME NEW h \in Handler PROVE Sound(h)'
    BY DEF HandlersAreSound
  <2>1. Sound(h) /\ handler[h] \in Work
    BY DEF HandlersAreSound, LeadTypeOK
  <2>2. \A x \in handler[h].todo \cup handler[h].sent : x[1] \in Lead
    BY <2>1 DEF Work
  <2>3. handler[h].lead \in Lead => (Recorded(handler[h].lead)' <=> Recorded(handler[h].lead))
    OBVIOUS
  <2> QED BY <2>1, <2>2, <2>3 DEF Sound
<1>3. UnrecordedSentNothing'
  BY DEF UnrecordedSentNothing
<1>4. AddingBounded'
  <2> SUFFICES ASSUME NEW p \in Phone
               PROVE  /\ IsFiniteSet(MadeByEmail(p)')
                      /\ Cardinality(MadeByEmail(p)') + Cardinality(Adding(p)') <= Cardinality(Handler)
    BY DEF AddingBounded
  <2>1. Adding(p)' = Adding(p)
    BY DEF Adding
  <2> QED BY <2>1, AddsNothing
<1>5. NoticesExplained'
  BY DEF NoticesExplained, Senders
<1> QED BY <1>1, <1>2, <1>3, <1>4, <1>5

-----------------------------------------------------------------------------
(* The steps *)

LEMMA AlertedType ==
    ASSUME NEW l \in Lead, NEW m \in Message
    PROVE  Alerted(l, m) \in SUBSET (Lead \X Notice) /\ \A x \in Alerted(l, m) : x[1] = l
BY DEF Alerted, Notice

\* Who begins to add a lead to a number has found none that has it.
LEMMA AddersFoundNone ==
    ASSUME LeadInv, NEW m \in Message, NEW l \in Lead, NEW p \in Phone, PhoneOf[m] = p,
           IF Duplicates(m) = {} THEN Unused(l) ELSE l \in Duplicates(m),
           Duplicates(m) = {} \/ lead[l].phone = Nil
    PROVE  MadeByEmail(p) = {}
<1>1. p # Nil
  BY LeadAssumption
<1>2. SamePhone(m) = {}
  <2>1. CASE Duplicates(m) = {}
    BY <2>1 DEF Duplicates
  <2>2. CASE Duplicates(m) # {}
    BY <1>1, <2>2 DEF Duplicates, SamePhone
  <2> QED BY <2>1, <2>2
<1> QED BY <1>1, <1>2 DEF SamePhone, MadeByEmail, Recorded

LEMMA IntakeBegins ==
    ASSUME LeadInv, NEW h \in Handler, NEW m \in Message, NEW l \in Lead, BeginIntake(h, m, l)
    PROVE  LeadInv'
<1> DEFINE q == [NoWork EXCEPT !.op = "intake", !.lead = l, !.fresh = (Duplicates(m) = {}),
                    !.contact = [phone |-> PhoneOf[m], email |-> EmailOf[m]],
                    !.loaded = Load(l), !.todo = Alerted(l, m)]
<1> USE DEF LeadInv
<1>1. /\ handler' = [handler EXCEPT ![h] = q] /\ requests' = requests + 1
      /\ UNCHANGED <<lead, delivered, failures>> /\ handler[h].op = "idle"
      /\ IF Duplicates(m) = {} THEN Unused(l) ELSE l \in Duplicates(m)
  BY DEF BeginIntake, Begin
<1>2. /\ q.op = "intake" /\ q.lead = l /\ q.fresh = (Duplicates(m) = {})
      /\ q.contact = [phone |-> PhoneOf[m], email |-> EmailOf[m]]
      /\ q.loaded = Load(l) /\ q.todo = Alerted(l, m) /\ q.sent = {}
      /\ q \in Work
  <2>1. Load(l) \in Loaded
    BY DEF Load, Loaded, LeadTypeOK, LeadRow
  <2>2. [phone |-> PhoneOf[m], email |-> EmailOf[m]] \in Contact
    BY LeadAssumption DEF Contact
  <2>3. Alerted(l, m) \in SUBSET (Lead \X Notice) /\ (Duplicates(m) = {}) \in BOOLEAN
    BY AlertedType
  <2> QED BY <2>1, <2>2, <2>3 DEF Work, NoWork, LeadStatus
<1> HIDE DEF q
<1>3. handler[h] = NoWork
  BY <1>1 DEF HandlersAreSound, Sound
<1>4. Recorded(l) <=> Duplicates(m) # {}
  BY <1>1 DEF Unused, Duplicates, SamePhone, SameEmail
<1>5. handler'[h] = q /\ \A v \in Handler \ {h} : handler'[v] = handler[v]
  BY <1>1 DEF LeadTypeOK
<1>6. q.fresh => \A v \in Handler : handler[v].lead # l
  BY <1>1, <1>2 DEF Unused
<1>7. Sound(h)'
  <2>1. \A x \in q.todo \cup q.sent : x[1] = l
    BY <1>2, AlertedType
  <2>2. Recorded(l)' <=> Recorded(l)
    BY <1>1 DEF Recorded
  <2>3. q.fresh => ~Recorded(l) /\ \A v \in Handler : handler'[v].lead = l => v = h
    BY <1>2, <1>4, <1>5, <1>6
  <2> QED BY <1>2, <1>4, <1>5, <2>1, <2>2, <2>3 DEF Sound
<1>8. \A v \in Handler \ {h} : q.lead # Nil /\ q.lead = handler[v].lead => ~handler[v].fresh
  BY <1>2, <1>4, <1>6 DEF HandlersAreSound, Sound
<1>9. \A p \in Phone : Adding(p)' \subseteq Adding(p) \/ MadeByEmail(p) = {}
  <2> SUFFICES ASSUME NEW p \in Phone, ~(Adding(p)' \subseteq Adding(p)) PROVE MadeByEmail(p) = {}
    OBVIOUS
  <2>1. q.contact.phone = p /\ (q.fresh \/ q.loaded.phone = Nil)
    BY <1>5 DEF Adding
  <2>2. PhoneOf[m] = p
    BY <1>2, <2>1
  <2>3. Duplicates(m) = {} \/ lead[l].phone = Nil
    <3>1. CASE q.fresh
      BY <1>2, <3>1
    <3>2. CASE ~q.fresh
      BY <1>2, <2>1, <3>2 DEF Load
    <3> QED BY <3>1, <3>2
  <2> QED BY <1>1, <2>2, <2>3, AddersFoundNone
<1>10. requests' \in Nat /\ q.sent = handler[h].sent
  BY <1>1, <1>2, <1>3 DEF LeadTypeOK, NoWork
<1> QED BY <1>1, <1>2, <1>7, <1>8, <1>9, <1>10, HandlerMoves

\* An intake commits the row of its lead.
LEMMA RowCommits ==
    ASSUME LeadInv, NEW h \in Handler, handler[h].op = "intake", NEW l \in Lead, l = handler[h].lead,
           NEW row \in LeadRow, lead' = [lead EXCEPT ![l] = row],
           handler' = [handler EXCEPT ![h] = NoWork], UNCHANGED <<delivered, requests, failures>>,
           row.source = lead[l].source \/ handler[h].fresh,
           row.source # "none", row.sent = lead[l].sent \cup SentBy(h, l),
           \A p \in Phone : h \notin Adding(p) /\ row.phone = p /\ row.source = "email" =>
               lead[l].phone = p /\ lead[l].source = "email"
    PROVE  LeadInv'
<1> USE DEF LeadInv
<1>1. lead' \in [Lead -> LeadRow] /\ lead'[l] = row /\ \A k \in Lead \ {l} : lead'[k] = lead[k]
  BY DEF LeadTypeOK
<1>2. \A k \in Lead \ {l} : SentBy(h, k) = {}
  BY DEF HandlersAreSound, Sound, SentBy
<1>3. \A k \in Lead : lead'[k].sent = lead[k].sent \cup SentBy(h, k)
  BY <1>1, <1>2
<1>4. \A p \in Phone : MadeByEmail(p)' \subseteq MadeByEmail(p) \cup {l}
  BY <1>1 DEF MadeByEmail
<1>5. \A p \in Phone : h \notin Adding(p) => MadeByEmail(p)' \subseteq MadeByEmail(p)
  BY <1>1 DEF MadeByEmail
<1>6. \A k \in Lead : lead'[k].source = lead[k].source \/ (k = handler[h].lead /\ handler[h].fresh)
  <2> SUFFICES ASSUME NEW k \in Lead
               PROVE  lead'[k].source = lead[k].source \/ (k = handler[h].lead /\ handler[h].fresh)
    OBVIOUS
  <2>1. CASE k # l
    BY <1>1, <2>1
  <2>2. CASE k = l /\ row.source = lead[l].source
    BY <1>1, <2>2
  <2>3. CASE k = l /\ handler[h].fresh
    BY <2>3
  <2> QED BY <2>1, <2>2, <2>3
<1>7. \A k \in Lead : lead'[k].sent # lead[k].sent => lead'[k].source # "none"
  <2> SUFFICES ASSUME NEW k \in Lead, k # l PROVE lead'[k].sent = lead[k].sent
    BY <1>1
  <2> QED BY <1>1
<1> QED BY <1>1, <1>3, <1>4, <1>5, <1>6, <1>7, CommitMoves

LEMMA IntakeCommits ==
    ASSUME LeadInv, NEW h \in Handler, CommitIntake(h)
    PROVE  LeadInv'
<1> DEFINE l == handler[h].lead
           contact == handler[h].contact
           loaded == handler[h].loaded
           row == IF handler[h].fresh THEN Created(contact) ELSE Merged(lead[l], loaded, contact)
           written == [row EXCEPT !.sent = @ \cup SentBy(h, l)]
<1> USE DEF LeadInv
<1>1. /\ lead' = [lead EXCEPT ![l] = written]
      /\ handler' = [handler EXCEPT ![h] = NoWork] /\ handler[h].op = "intake"
      /\ UNCHANGED <<delivered, requests, failures>>
  BY DEF CommitIntake, Finish
<1>2. /\ l \in Lead /\ Sound(h) /\ handler[h] \in Work
      /\ contact \in Contact /\ loaded \in Loaded /\ lead[l] \in LeadRow
      /\ SentBy(h, l) \in SUBSET Notice
  BY <1>1 DEF HandlersAreSound, Sound, LeadTypeOK, Work, SentBy
<1>3. ~Recorded(l) <=> handler[h].fresh
  BY <1>1, <1>2 DEF Sound
<1>4. CASE handler[h].fresh
  <2>1. /\ row \in LeadRow /\ row.source = "email" /\ row.phone = contact.phone /\ row.sent = {}
    BY <1>2, <1>4 DEF Created, NoLead, LeadRow, Contact, LeadStatus
  <2>2. lead[l].sent = {}
    BY <1>2, <1>3, <1>4 DEF UnrecordedSentNothing
  <2> HIDE DEF row
  <2>3. /\ written \in LeadRow /\ written.source = "email" /\ written.phone = contact.phone
        /\ written.sent = lead[l].sent \cup SentBy(h, l)
    BY <1>2, <2>1, <2>2 DEF LeadRow
  <2>4. ASSUME NEW p \in Phone, h \notin Adding(p) PROVE contact.phone # p
    BY <1>1, <1>4, <2>4 DEF Adding
  <2> HIDE DEF written
  <2>5. \A p \in Phone : h \notin Adding(p) /\ written.phone = p /\ written.source = "email" =>
            lead[l].phone = p /\ lead[l].source = "email"
    BY <2>3, <2>4
  <2> QED BY <1>1, <1>2, <1>4, <2>3, <2>5, RowCommits
<1>5. CASE ~handler[h].fresh
  <2>1. /\ row \in LeadRow /\ row.source = lead[l].source /\ row.sent = lead[l].sent
        /\ row.phone = Filled(lead[l].phone, loaded.phone, contact.phone)
    BY <1>2, <1>5 DEF Merged, LeadRow, Contact, Filled, Saved
  <2> HIDE DEF row
  <2>2. /\ written \in LeadRow /\ written.source = lead[l].source
        /\ written.phone = Filled(lead[l].phone, loaded.phone, contact.phone)
        /\ written.sent = lead[l].sent \cup SentBy(h, l)
    BY <1>2, <2>1 DEF LeadRow
  <2>3. ASSUME NEW p \in Phone, h \notin Adding(p), written.phone = p PROVE lead[l].phone = p
    BY <1>1, <1>5, <2>2, <2>3 DEF Adding, Filled, Saved
  <2> HIDE DEF written
  <2> QED BY <1>1, <1>2, <1>3, <1>5, <2>2, <2>3, RowCommits DEF Recorded
<1> QED BY <1>4, <1>5

LEMMA RemindersBegin ==
    ASSUME LeadInv, NEW h \in Handler, BeginReminders(h)
    PROVE  LeadInv'
<1> DEFINE todo == {<<d[1], [kind |-> "owner_reminder", ref |-> d[2]]>> :
                        d \in {e \in DueReminders : Alerts}}
           q == [NoWork EXCEPT !.op = "reminders", !.due = DueReminders, !.todo = todo]
<1> USE DEF LeadInv
<1>1. /\ handler' = [handler EXCEPT ![h] = q] /\ requests' = requests + 1
      /\ UNCHANGED <<lead, delivered, failures>> /\ handler[h].op = "idle"
  BY DEF BeginReminders, Begin
<1>2. DueReminders \in SUBSET (Lead \X Threshold) /\ \A d \in DueReminders : Recorded(d[1])
  BY DEF DueReminders, Waiting
<1>3. todo \in SUBSET (Lead \X Notice) /\ \A x \in todo : Recorded(x[1])
  BY <1>2 DEF Notice
<1> HIDE DEF todo
<1>4. /\ q \in Work /\ q.op = "reminders" /\ q.lead = Nil /\ q.sent = {} /\ q.todo = todo
      /\ ~q.fresh
  BY <1>2, <1>3, RowTypes DEF NoWork, Work
<1> HIDE DEF q
<1>5. handler[h] = NoWork
  BY <1>1 DEF HandlersAreSound, Sound
<1>6. handler'[h] = q /\ \A v \in Handler \ {h} : handler'[v] = handler[v]
  BY <1>1 DEF LeadTypeOK
<1>7. Sound(h)'
  BY <1>1, <1>3, <1>4, <1>6 DEF Sound, Recorded
<1>8. \A p \in Phone : Adding(p)' \subseteq Adding(p)
  BY <1>4, <1>6 DEF Adding
<1>9. requests' \in Nat /\ q.sent = handler[h].sent
  BY <1>1, <1>4, <1>5 DEF LeadTypeOK, NoWork
<1> QED BY <1>1, <1>4, <1>7, <1>8, <1>9, HandlerMoves

LEMMA PatchBegins ==
    ASSUME LeadInv, NEW h \in Handler, NEW l \in Lead, NEW next \in Requested, BeginPatch(h, l, next)
    PROVE  LeadInv'
<1> DEFINE q == [NoWork EXCEPT !.op = "patch", !.lead = l, !.loaded = Load(l), !.next = next]
<1> USE DEF LeadInv
<1>1. /\ handler' = [handler EXCEPT ![h] = q] /\ requests' = requests + 1 /\ Recorded(l)
      /\ UNCHANGED <<lead, delivered, failures>> /\ handler[h].op = "idle"
  BY DEF BeginPatch, Begin
<1>2. Load(l) \in Loaded /\ next \in LeadStatus
  BY LeadAssumption DEF Load, Loaded, LeadTypeOK, LeadRow, LeadStatus
<1>3. /\ q \in Work /\ q.op = "patch" /\ q.lead = l /\ q.sent = {} /\ q.todo = {} /\ ~q.fresh
  BY <1>2, RowTypes DEF NoWork, Work
<1> HIDE DEF q
<1>4. handler[h] = NoWork
  BY <1>1 DEF HandlersAreSound, Sound
<1>5. handler'[h] = q /\ \A v \in Handler \ {h} : handler'[v] = handler[v]
  BY <1>1 DEF LeadTypeOK
<1>6. Sound(h)'
  BY <1>3, <1>5 DEF Sound
<1>7. \A p \in Phone : Adding(p)' \subseteq Adding(p)
  BY <1>3, <1>5 DEF Adding
<1>8. \A v \in Handler \ {h} : q.lead # Nil /\ q.lead = handler[v].lead => ~handler[v].fresh
  BY <1>1, <1>3 DEF HandlersAreSound, Sound
<1>9. requests' \in Nat /\ q.sent = handler[h].sent
  BY <1>1, <1>3, <1>4 DEF LeadTypeOK, NoWork
<1> QED BY <1>1, <1>3, <1>6, <1>7, <1>8, <1>9, HandlerMoves

LEMMA RemindersCommit ==
    ASSUME LeadInv, NEW h \in Handler, CommitReminders(h)
    PROVE  LeadInv'
<1> USE DEF LeadInv
<1>1. /\ handler' = [handler EXCEPT ![h] = NoWork] /\ handler[h].op = "reminders"
      /\ UNCHANGED <<delivered, requests, failures>>
  BY DEF CommitReminders, Finish
<1>2. ASSUME NEW l \in Lead
      PROVE  /\ lead'[l] \in LeadRow /\ lead'[l].source = lead[l].source
             /\ lead'[l].phone = lead[l].phone /\ lead'[l].sent = lead[l].sent \cup SentBy(h, l)
  <2> DEFINE reminded == lead[l].reminded \cup {t \in Threshold : <<l, t>> \in handler[h].due}
             sent == lead[l].sent \cup SentBy(h, l)
  <2>1. lead'[l] = [lead[l] EXCEPT !.reminded = reminded, !.sent = sent]
    BY DEF CommitReminders
  <2>2. reminded \in SUBSET Threshold /\ sent \in SUBSET Notice /\ lead[l] \in LeadRow
    BY DEF LeadTypeOK, LeadRow, SentBy
  <2> HIDE DEF reminded, sent
  <2>3. /\ lead'[l] \in LeadRow /\ lead'[l].source = lead[l].source
        /\ lead'[l].phone = lead[l].phone /\ lead'[l].sent = sent
    BY <2>1, <2>2 DEF LeadRow
  <2> QED BY <2>3 DEF sent
<1>3. lead' \in [Lead -> LeadRow]
  BY <1>2 DEF CommitReminders
<1>4. \A l \in Lead : lead'[l].sent # lead[l].sent => lead'[l].source # "none"
  <2> SUFFICES ASSUME NEW l \in Lead, lead'[l].sent # lead[l].sent PROVE Recorded(l)
    BY <1>2 DEF Recorded
  <2>1. PICK n \in Notice : <<l, n>> \in handler[h].sent
    BY <1>2 DEF SentBy
  <2>2. Sound(h)
    BY DEF HandlersAreSound
  <2>3. \A x \in handler[h].sent : Recorded(x[1])
    BY <1>1, <2>2 DEF Sound
  <2> QED BY <2>1, <2>3
<1>5. \A p \in Phone : MadeByEmail(p)' = MadeByEmail(p)
  BY <1>2 DEF MadeByEmail
<1> QED BY <1>1, <1>2, <1>3, <1>4, <1>5, CommitMoves

LEMMA PatchCommits ==
    ASSUME LeadInv, NEW h \in Handler, CommitPatch(h)
    PROVE  LeadInv'
<1> DEFINE l == handler[h].lead
           status == Saved(lead[l].status, handler[h].loaded.status, handler[h].next)
           answered == IF ~handler[h].loaded.answered /\ handler[h].next # "new"
                         THEN TRUE ELSE lead[l].answered
<1> USE DEF LeadInv
<1>1. /\ handler' = [handler EXCEPT ![h] = NoWork] /\ handler[h].op = "patch"
      /\ UNCHANGED <<delivered, requests, failures>>
      /\ lead' = [lead EXCEPT ![l].status = status, ![l].answered = answered]
  BY DEF CommitPatch, Finish
<1>2. l \in Lead /\ handler[h].sent = {}
  BY <1>1 DEF HandlersAreSound, Sound
<1>3. status \in LeadStatus /\ answered \in BOOLEAN
  BY <1>2 DEF LeadTypeOK, LeadRow, Work, Saved
<1> HIDE DEF l, status, answered
<1>4. lead' \in [Lead -> LeadRow]
  <2>1. [lead[l] EXCEPT !.status = status, !.answered = answered] \in LeadRow
    <3>1. lead[l] \in LeadRow
      BY <1>2 DEF LeadTypeOK
    <3> QED BY <1>3, <3>1, ZenonT(60) DEF LeadRow
  <2>2. lead' = [lead EXCEPT ![l] = [lead[l] EXCEPT !.status = status, !.answered = answered]]
    BY <1>1, <1>2 DEF LeadTypeOK
  <2> QED BY <2>1, <2>2 DEF LeadTypeOK
<1>5. \A k \in Lead : /\ lead'[k].source = lead[k].source /\ lead'[k].phone = lead[k].phone
                      /\ lead'[k].sent = lead[k].sent
  BY <1>1, <1>2, <1>3 DEF LeadTypeOK, LeadRow
<1>6. \A k \in Lead : SentBy(h, k) = {}
  BY <1>2 DEF SentBy
<1>7. \A p \in Phone : MadeByEmail(p)' = MadeByEmail(p)
  BY <1>5 DEF MadeByEmail
<1> QED BY <1>1, <1>4, <1>5, <1>6, <1>7, CommitMoves

LEMMA ManualLeads ==
    ASSUME LeadInv, NEW l \in Lead, NEW contact \in ManualContact, CreateManualLead(l, contact)
    PROVE  LeadInv'
<1> DEFINE row == [NoLead EXCEPT !.source = "manual", !.phone = contact.phone,
                                 !.email = contact.email]
<1> USE DEF LeadInv
<1>1. /\ lead' = [lead EXCEPT ![l] = row] /\ UNCHANGED <<delivered, handler, requests, failures>>
      /\ ~Recorded(l) /\ \A h \in Handler : handler[h].lead # l
  BY DEF CreateManualLead, Unused
<1>2. row \in LeadRow /\ row.source = "manual" /\ row.sent = {}
  BY LeadAssumption DEF NoLead, LeadRow, LeadStatus
<1> HIDE DEF row
<1>3. lead' \in [Lead -> LeadRow] /\ lead'[l] = row /\ \A k \in Lead \ {l} : lead'[k] = lead[k]
  BY <1>1, <1>2 DEF LeadTypeOK
<1>4. \A k \in Lead : lead'[k].sent = lead[k].sent
  BY <1>1, <1>2, <1>3 DEF UnrecordedSentNothing
<1>5. \A k \in Lead : Recorded(k) => Recorded(k)'
  BY <1>1, <1>3 DEF Recorded
<1>6. \A k \in Lead : (\E h \in Handler : handler[h].lead = k) => (Recorded(k)' => Recorded(k))
  BY <1>1, <1>3 DEF Recorded
<1>7. \A p \in Phone : MadeByEmail(p)' \subseteq MadeByEmail(p)
  BY <1>2, <1>3 DEF MadeByEmail
<1> QED BY <1>1, <1>3, <1>4, <1>5, <1>6, <1>7, LeadsMove

LEMMA LeadsAge ==
    ASSUME LeadInv, NEW l \in Lead, TimePasses(l)
    PROVE  LeadInv'
<1> USE DEF LeadInv
<1>1. PICK t \in Threshold : lead' = [lead EXCEPT ![l].age = t]
  BY DEF TimePasses
<1>2. lead' \in [Lead -> LeadRow]
  <2>1. [lead[l] EXCEPT !.age = t] \in LeadRow
    BY DEF LeadTypeOK, LeadRow
  <2>2. lead' = [lead EXCEPT ![l] = [lead[l] EXCEPT !.age = t]]
    BY <1>1
  <2> QED BY <2>1, <2>2 DEF LeadTypeOK
<1>3. \A k \in Lead : /\ lead'[k].source = lead[k].source /\ lead'[k].phone = lead[k].phone
                      /\ lead'[k].sent = lead[k].sent
  BY <1>1 DEF LeadTypeOK, LeadRow
<1>4. \A p \in Phone : MadeByEmail(p)' = MadeByEmail(p)
  BY <1>3 DEF MadeByEmail
<1> QED BY <1>2, <1>3, <1>4, LeadsMove DEF TimePasses, Recorded

\* A message that is not sent: only the list of the request gets shorter.
LEMMA NotSent ==
    ASSUME LeadInv, NEW h \in Handler, NEW l \in Lead, NEW n \in Notice, Dispatch(h, l, n, FALSE)
    PROVE  LeadInv'
<1> DEFINE q == [handler[h] EXCEPT !.todo = @ \ {<<l, n>>}]
<1> USE DEF LeadInv
<1>1. handler[h] \in Work
  BY DEF LeadTypeOK
<1>2. handler' = [handler EXCEPT ![h] = q] /\ UNCHANGED <<lead, delivered, requests, failures>>
  BY <1>1 DEF Dispatch, LeadTypeOK, Work
<1>3. /\ q \in Work /\ q.op = handler[h].op /\ q.lead = handler[h].lead
      /\ q.sent = handler[h].sent /\ q.todo \subseteq handler[h].todo
      /\ q.contact = handler[h].contact /\ q.loaded = handler[h].loaded
  BY <1>1 DEF Work
<1>4. q.fresh = handler[h].fresh
  BY <1>1 DEF Work
<1>5. <<l, n>> \in handler[h].todo
  BY DEF Dispatch
<1> HIDE DEF q
<1>6. handler'[h] = q /\ \A v \in Handler \ {h} : handler'[v] = handler[v]
  BY <1>2 DEF LeadTypeOK
<1>7. Sound(h)'
  <2>1. Sound(h)
    BY DEF HandlersAreSound
  <2>2. handler[h].op # "idle"
    BY <1>5, <2>1 DEF Sound, NoWork
  <2>3. handler[h].op # "patch"
    BY <1>5, <2>1 DEF Sound
  <2> QED BY <1>2, <1>3, <1>4, <1>6, <2>1, <2>2, <2>3 DEF Sound, Recorded
<1>8. \A v \in Handler \ {h} : q.lead # Nil /\ q.lead = handler[v].lead => ~handler[v].fresh
  BY <1>3 DEF HandlersAreSound, Sound
<1>9. \A p \in Phone : Adding(p)' \subseteq Adding(p)
  BY <1>3, <1>4, <1>6 DEF Adding
<1> QED BY <1>2, <1>3, <1>7, <1>8, <1>9, HandlerMoves DEF LeadTypeOK

\* A message that is sent has one more request that will record it.
LEMMA IsSent ==
    ASSUME LeadInv, NEW h \in Handler, NEW l \in Lead, NEW n \in Notice, Dispatch(h, l, n, TRUE)
    PROVE  LeadInv'
<1> DEFINE q == [handler[h] EXCEPT !.todo = @ \ {<<l, n>>}, !.sent = @ \cup {<<l, n>>}]
<1> USE DEF LeadInv
<1>1. handler[h] \in Work /\ Sound(h)
  BY DEF LeadTypeOK, HandlersAreSound
<1>2. /\ handler' = [handler EXCEPT ![h] = q] /\ UNCHANGED <<lead, requests, failures>>
      /\ delivered' = [delivered EXCEPT ![l][n] = @ + 1]
      /\ <<l, n>> \in handler[h].todo /\ n \notin lead[l].sent
  BY <1>1 DEF Dispatch, AlreadySent, LeadTypeOK, Work
<1>3. /\ q \in Work /\ q.op = handler[h].op /\ q.lead = handler[h].lead
      /\ q.sent = handler[h].sent \cup {<<l, n>>} /\ q.todo = handler[h].todo \ {<<l, n>>}
      /\ q.contact = handler[h].contact /\ q.loaded = handler[h].loaded
  <2>1. /\ handler[h].sent \cup {<<l, n>>} \in SUBSET (Lead \X Notice)
        /\ handler[h].todo \ {<<l, n>>} \in SUBSET (Lead \X Notice)
    BY <1>1 DEF Work
  <2> DEFINE s == handler[h].sent \cup {<<l, n>>}
             t == handler[h].todo \ {<<l, n>>}
  <2>2. q = [[handler[h] EXCEPT !.todo = t] EXCEPT !.sent = s]
    OBVIOUS
  <2>3. s \in SUBSET (Lead \X Notice) /\ t \in SUBSET (Lead \X Notice)
    BY <2>1
  <2> HIDE DEF s, t, q
  <2>4. /\ q \in Work /\ q.op = handler[h].op /\ q.lead = handler[h].lead
        /\ q.sent = s /\ q.todo = t
        /\ q.contact = handler[h].contact /\ q.loaded = handler[h].loaded
    BY <1>1, <2>2, <2>3 DEF Work
  <2> QED BY <2>4 DEF s, t
<1>4. q.fresh = handler[h].fresh
  BY <1>1 DEF Work
<1> HIDE DEF q
<1>5. handler'[h] = q /\ \A v \in Handler \ {h} : handler'[v] = handler[v]
  BY <1>2 DEF LeadTypeOK
<1>6. \A k \in Lead : Recorded(k)' <=> Recorded(k)
  BY <1>2 DEF Recorded
<1>7. handler[h].op \notin {"idle", "patch"}
  BY <1>1, <1>2 DEF Sound, NoWork
<1>8. LeadTypeOK'
  <2>1. delivered' \in [Lead -> [Notice -> Nat]]
    BY <1>2 DEF LeadTypeOK
  <2> QED BY <1>2, <1>3, <2>1 DEF LeadTypeOK
<1>9. HandlersAreSound'
  <2>1. Sound(h)'
    <3>1. q.todo \cup q.sent = handler[h].todo \cup handler[h].sent /\ q.todo \cap q.sent = {}
      BY <1>1, <1>2, <1>3 DEF Sound
    <3>2. \A v \in Handler : handler'[v].lead = handler[v].lead
      BY <1>3, <1>5
    <3> QED BY <1>1, <1>2, <1>3, <1>4, <1>5, <1>7, <3>1, <3>2 DEF Sound, Recorded
  <2>2. ASSUME NEW v \in Handler \ {h} PROVE Sound(v)'
    <3>1. Sound(v) /\ handler'[v] = handler[v]
      BY <1>5 DEF HandlersAreSound
    <3>2. \A u \in Handler : handler'[u].lead = handler[u].lead
      BY <1>3, <1>5
    <3> QED BY <1>2, <3>1, <3>2 DEF Sound, Recorded
  <2> QED BY <2>1, <2>2 DEF HandlersAreSound
<1>10. UnrecordedSentNothing'
  BY <1>2 DEF UnrecordedSentNothing, Recorded
<1>11. AddingBounded'
  <2> SUFFICES ASSUME NEW p \in Phone
               PROVE  /\ IsFiniteSet(MadeByEmail(p)')
                      /\ Cardinality(MadeByEmail(p)') + Cardinality(Adding(p)') <= Cardinality(Handler)
    BY DEF AddingBounded
  <2>1. Adding(p)' \subseteq Adding(p)
    BY <1>3, <1>4, <1>5 DEF Adding
  <2>2. MadeByEmail(p)' = MadeByEmail(p)
    BY <1>2 DEF MadeByEmail
  <2> QED BY <2>1, <2>2, AddsNothing
<1>12. NoticesExplained'
  <2> SUFFICES ASSUME NEW k \in Lead, NEW i \in Notice
               PROVE  /\ delivered'[k][i] <= Cardinality(Handler) + failures'
                      /\ i \notin lead'[k].sent =>
                            delivered'[k][i] <= Cardinality(Senders(k, i)') + failures'
    BY DEF NoticesExplained
  <2>1. CASE k = l /\ i = n
    <3>1. Senders(l, n)' = Senders(l, n) \cup {h} /\ h \notin Senders(l, n)
      BY <1>1, <1>2, <1>3, <1>5 DEF Senders, Sound
    <3>2. Senders(l, n) \in SUBSET Handler /\ Senders(l, n)' \in SUBSET Handler
      BY <3>1 DEF Senders
    <3>3. Cardinality(Senders(l, n)') = Cardinality(Senders(l, n)) + 1
      BY <3>1, <3>2, SetsOfHandlers, FS_AddElement
    <3>4. /\ Cardinality(Senders(l, n)) \in Nat /\ Cardinality(Handler) \in Nat
          /\ Cardinality(Senders(l, n)') <= Cardinality(Handler)
      BY <3>2, SetsOfHandlers
    <3>5. delivered'[l][n] = delivered[l][n] + 1 /\ delivered[l][n] \in Nat /\ failures \in Nat
      BY <1>2 DEF LeadTypeOK
    <3>6. delivered[l][n] <= Cardinality(Senders(l, n)) + failures
      BY <1>2 DEF NoticesExplained
    <3>7. failures' = failures
      BY <1>2
    <3> QED BY <2>1, <3>3, <3>4, <3>5, <3>6, <3>7
  <2>2. CASE ~(k = l /\ i = n)
    <3>1. delivered'[k][i] = delivered[k][i]
      BY <1>2, <2>2 DEF LeadTypeOK
    <3>2. <<k, i>> # <<l, n>>
      BY <2>2
    <3>3. Senders(k, i)' = Senders(k, i)
      BY <1>3, <1>5, <3>2 DEF Senders
    <3> QED BY <1>2, <3>1, <3>3, SendsNothing
  <2> QED BY <2>1, <2>2
<1> QED BY <1>8, <1>9, <1>10, <1>11, <1>12

\* A request that dies will not record what it sent, but it counts as a failure.
LEMMA RequestsDie ==
    ASSUME LeadInv, NEW h \in Handler, RequestDies(h)
    PROVE  LeadInv'
<1> USE DEF LeadInv
<1>1. /\ handler' = [handler EXCEPT ![h] = NoWork] /\ failures' = failures + 1
      /\ UNCHANGED <<lead, delivered, requests>>
  BY DEF RequestDies, Finish
<1>2. handler'[h] = NoWork /\ \A v \in Handler \ {h} : handler'[v] = handler[v]
  BY <1>1 DEF LeadTypeOK
<1>3. LeadTypeOK'
  BY <1>1, RowTypes DEF LeadTypeOK
<1>4. HandlersAreSound'
  <2>1. Sound(h)'
    BY <1>2 DEF Sound, NoWork
  <2>2. ASSUME NEW v \in Handler \ {h} PROVE Sound(v)'
    <3>1. Sound(v) /\ handler'[v] = handler[v]
      BY <1>2 DEF HandlersAreSound
    <3>2. handler[v].fresh => handler'[h].lead # handler[v].lead
      BY <1>2, <3>1, LeadAssumption DEF Sound, NoWork
    <3> QED BY <1>1, <1>2, <3>1, <3>2 DEF Sound, Recorded
  <2> QED BY <2>1, <2>2 DEF HandlersAreSound
<1>5. UnrecordedSentNothing'
  BY <1>1 DEF UnrecordedSentNothing, Recorded
<1>6. AddingBounded'
  <2> SUFFICES ASSUME NEW p \in Phone
               PROVE  /\ IsFiniteSet(MadeByEmail(p)')
                      /\ Cardinality(MadeByEmail(p)') + Cardinality(Adding(p)') <= Cardinality(Handler)
    BY DEF AddingBounded
  <2>1. Adding(p)' \subseteq Adding(p) /\ MadeByEmail(p)' = MadeByEmail(p)
    BY <1>1, <1>2 DEF Adding, NoWork, MadeByEmail
  <2> QED BY <2>1, AddsNothing
<1>7. NoticesExplained'
  <2> SUFFICES ASSUME NEW l \in Lead, NEW n \in Notice
               PROVE  /\ delivered'[l][n] <= Cardinality(Handler) + failures'
                      /\ n \notin lead'[l].sent =>
                            delivered'[l][n] <= Cardinality(Senders(l, n)') + failures'
    BY DEF NoticesExplained
  <2>1. Senders(l, n)' = Senders(l, n) \ {h}
    BY <1>2 DEF Senders, NoWork
  <2>2. Senders(l, n) \in SUBSET Handler
    BY DEF Senders
  <2>3. /\ IsFiniteSet(Senders(l, n)) /\ Cardinality(Senders(l, n)) \in Nat
        /\ Cardinality(Handler) \in Nat
    BY <2>2, SetsOfHandlers
  <2>4. /\ Cardinality(Senders(l, n)') >= Cardinality(Senders(l, n)) - 1
        /\ Cardinality(Senders(l, n)') \in Int
    <3>1. Senders(l, n) \ {h} \in SUBSET Handler
      BY <2>2
    <3>2. Cardinality(Senders(l, n) \ {h}) \in Nat
      BY <3>1, SetsOfHandlers
    <3>3. CASE h \in Senders(l, n)
      <4>1. Cardinality(Senders(l, n) \ {h}) = Cardinality(Senders(l, n)) - 1
        BY <2>3, <3>3, FS_RemoveElement
      <4> QED BY <2>1, <2>3, <3>2, <4>1
    <3>4. CASE h \notin Senders(l, n)
      <4>1. Senders(l, n) \ {h} = Senders(l, n)
        BY <3>4
      <4> QED BY <2>1, <2>3, <4>1
    <3> QED BY <3>3, <3>4
  <2>5. /\ delivered'[l][n] = delivered[l][n] /\ delivered[l][n] \in Nat
        /\ lead' = lead /\ failures \in Nat
    BY <1>1 DEF LeadTypeOK
  <2>6. /\ delivered[l][n] <= Cardinality(Handler) + failures
        /\ n \notin lead[l].sent => delivered[l][n] <= Cardinality(Senders(l, n)) + failures
    BY DEF NoticesExplained
  <2> QED BY <1>1, <2>3, <2>4, <2>5, <2>6
<1> QED BY <1>3, <1>4, <1>5, <1>6, <1>7

LEMMA StepKeepsLeads ==
    ASSUME LeadInv, [LeadNext]_leadVars
    PROVE  LeadInv'
<1>1. ASSUME NEW h \in Handler, HandlerStep(h) PROVE LeadInv'
  <2>1. ASSUME NEW l \in Lead, NEW n \in Notice, NEW sent \in BOOLEAN, Dispatch(h, l, n, sent)
        PROVE  LeadInv'
    <3>1. CASE sent = TRUE
      <4>1. Dispatch(h, l, n, TRUE)
        BY <2>1, <3>1
      <4> QED BY <1>1, <4>1, IsSent
    <3>2. CASE sent = FALSE
      <4>1. Dispatch(h, l, n, FALSE)
        BY <2>1, <3>2
      <4> QED BY <1>1, <4>1, NotSent
    <3> QED BY <2>1, <3>1, <3>2, Zenon
  <2> QED BY <1>1, <2>1, IntakeBegins, IntakeCommits, RemindersBegin, RemindersCommit, PatchBegins,
             PatchCommits, RequestsDie DEF HandlerStep
<1>2. CASE UNCHANGED leadVars
  <2>1. UNCHANGED <<lead, delivered, handler, requests, failures>>
    BY <1>2 DEF leadVars
  <2>2. LeadTypeOK'
    BY <2>1 DEF LeadInv, LeadTypeOK
  <2>3. HandlersAreSound' /\ UnrecordedSentNothing'
    BY <2>1 DEF LeadInv, HandlersAreSound, Sound, UnrecordedSentNothing, Recorded
  <2>4. AddingBounded'
    BY <2>1 DEF LeadInv, AddingBounded, MadeByEmail, Adding
  <2>5. NoticesExplained'
    BY <2>1 DEF LeadInv, NoticesExplained, Senders
  <2> QED BY <2>2, <2>3, <2>4, <2>5 DEF LeadInv
<1> QED BY <1>1, <1>2, ManualLeads, LeadsAge DEF LeadNext

LEMMA LeadInductive == LeadSpec => []LeadInv
<1>1. LeadInv /\ [LeadNext]_leadVars => LeadInv'
  BY StepKeepsLeads
<1> QED BY <1>1, InitLeadInv, PTL DEF LeadSpec

-----------------------------------------------------------------------------
\* Every variable keeps its type.
THEOREM LeadTypeCorrect == LeadSpec => []LeadTypeOK
<1>1. LeadInv => LeadTypeOK
  BY DEF LeadInv
<1> QED BY <1>1, LeadInductive, PTL

\* Emails make no more leads with one phone number than requests overlap.
THEOREM DuplicatesStayBounded == LeadSpec => []DuplicatesBounded
<1>1. LeadInv => DuplicatesBounded
  <2> SUFFICES ASSUME LeadInv, NEW p \in Phone
               PROVE  Cardinality(MadeByEmail(p)) <= Cardinality(Handler)
    BY DEF DuplicatesBounded
  <2>1. Adding(p) \in SUBSET Handler
    BY DEF Adding
  <2>2. Cardinality(Adding(p)) \in Nat /\ Cardinality(Handler) \in Nat
    BY <2>1, SetsOfHandlers
  <2>3. Cardinality(MadeByEmail(p)) \in Nat
        /\ Cardinality(MadeByEmail(p)) + Cardinality(Adding(p)) <= Cardinality(Handler)
    BY FS_CardinalityType DEF LeadInv, AddingBounded
  <2> QED BY <2>2, <2>3
<1> QED BY <1>1, LeadInductive, PTL

\* Nobody gets a notification more often than requests overlap and die.
THEOREM NoticesStayBounded == LeadSpec => []NoticesBounded
<1>1. LeadInv => NoticesBounded
  BY DEF LeadInv, NoticesExplained, NoticesBounded
<1> QED BY <1>1, LeadInductive, PTL
=============================================================================
