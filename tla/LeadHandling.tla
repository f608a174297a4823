------------------------------ MODULE LeadHandling ------------------------------
(* Leads of one business within the seven days of the duplicate lookup: intake  *)
(* of emails, manual intake, reminders and status changes, as requests that run *)
(* at the same time and commit once, at their end.                              *)
(*                                                                              *)
(* lead[l]        the row of a lead and the events that later requests look for *)
(* delivered[l]   messages that the SMS or email provider accepted              *)
(* handler        requests in flight: what they loaded and what they will write *)
EXTENDS Naturals, FiniteSets

CONSTANTS
    Lead,
    Message,         \* emails, each with its source_ref
    Phone, Email,    \* as normalized for comparison
    PhoneOf, EmailOf, \* what the parser finds in a message
    Threshold,        \* reminders: 1 after 15 minutes, 2 after 2 hours
    ManualContact,    \* phone and email of the leads that are entered by hand
    Requested,        \* statuses that the operator asks for
    Handler,
    Acknowledges,    \* the business sends customer acknowledgments
    Alerts,          \* the business wants alerts and reminders
    MaxRequests,     \* bound on requests
    MaxFailures,     \* bound on requests that die before they commit
    Nil

ASSUME LeadAssumption ==
    /\ Nil \notin Lead \cup Message \cup Phone \cup Email
    /\ PhoneOf \in [Message -> Phone \cup {Nil}]
    /\ EmailOf \in [Message -> Email \cup {Nil}]
    /\ Threshold \subseteq {1, 2}
    /\ ManualContact \subseteq [phone: Phone \cup {Nil}, email: Email \cup {Nil}]
    /\ Requested \subseteq {"new", "contacted", "estimate_scheduled", "won", "lost"}
    /\ IsFiniteSet(Handler) /\ Handler # {}
    /\ Acknowledges \in BOOLEAN /\ Alerts \in BOOLEAN
    /\ MaxRequests \in Nat /\ MaxFailures \in Nat

VARIABLES lead, delivered, handler, requests, failures
leadVars == <<lead, delivered, handler, requests, failures>>

LeadStatus == {"new", "contacted", "estimate_scheduled", "won", "lost"}

(* A notification with its idempotency key                                      *)
Notice == [kind: {"customer_ack", "contractor_alert"}, ref: Message]
          \cup [kind: {"owner_reminder"}, ref: Threshold]

LeadRow == [source: {"none", "manual", "email"}, phone: Phone \cup {Nil}, email: Email \cup {Nil},
            status: LeadStatus, answered: BOOLEAN,
            age: {0} \cup Threshold,     \* the last threshold that has passed
            reminded: SUBSET Threshold,  \* REMINDER_..._TRIGGERED events
            sent: SUBSET Notice]         \* NOTIFICATION_DISPATCH_SENT events
Contact == [phone: Phone \cup {Nil}, email: Email \cup {Nil}]
Loaded == [phone: Phone \cup {Nil}, email: Email \cup {Nil}, status: LeadStatus, answered: BOOLEAN]
Work == [op: {"idle", "intake", "reminders", "patch"}, lead: Lead \cup {Nil}, fresh: BOOLEAN,
         contact: Contact, loaded: Loaded, next: LeadStatus,
         due: SUBSET (Lead \X Threshold), todo: SUBSET (Lead \X Notice),
         sent: SUBSET (Lead \X Notice)]

NoContact == [phone |-> Nil, email |-> Nil]
NoLead == [source |-> "none", phone |-> Nil, email |-> Nil, status |-> "new", answered |-> FALSE,
           age |-> 0, reminded |-> {}, sent |-> {}]
NothingLoaded == [phone |-> Nil, email |-> Nil, status |-> "new", answered |-> FALSE]
NoWork == [op |-> "idle", lead |-> Nil, fresh |-> FALSE, contact |-> NoContact, loaded |-> NothingLoaded,
           next |-> "new", due |-> {}, todo |-> {}, sent |-> {}]

LeadTypeOK ==
    /\ lead \in [Lead -> LeadRow]
    /\ delivered \in [Lead -> [Notice -> Nat]]
    /\ handler \in [Handler -> Work]
    /\ requests \in Nat /\ failures \in Nat

LeadInit ==
    /\ lead = [l \in Lead |-> NoLead]
    /\ delivered = [l \in Lead |-> [n \in Notice |-> 0]]
    /\ handler = [h \in Handler |-> NoWork]
    /\ requests = 0 /\ failures = 0

Recorded(l) == lead[l].source # "none"
(* A new row has an identifier that nothing used before.                        *)
Unused(l) ==
    /\ ~Recorded(l)
    /\ \A n \in Notice : delivered[l][n] = 0
    /\ \A h \in Handler : handler[h].lead # l

(* SQLAlchemy writes a column when the new value differs from the loaded one.   *)
Saved(stored, loaded, new) == IF loaded = new THEN stored ELSE new

Load(l) == [phone |-> lead[l].phone, email |-> lead[l].email,
            status |-> lead[l].status, answered |-> lead[l].answered]
Begin(h, work) ==
    /\ handler[h].op = "idle"
    /\ requests < MaxRequests
    /\ requests' = requests + 1
    /\ handler' = [handler EXCEPT ![h] = work]
Finish(h) == handler' = [handler EXCEPT ![h] = NoWork]

-------------------------------------------------------------------------------
(* EmailIntakeService.ingest                                                    *)

SamePhone(m) == {l \in Lead : Recorded(l) /\ PhoneOf[m] # Nil /\ lead[l].phone = PhoneOf[m]}
SameEmail(m) == {l \in Lead : Recorded(l) /\ EmailOf[m] # Nil /\ lead[l].email = EmailOf[m]}

\* Mutant: only leads entered by hand are compared.
DuplicatesByHand(m) == {l \in SamePhone(m) \cup SameEmail(m) : lead[l].source = "manual"}

(* find_duplicate: the phone decides before the email; names and dates only     *)
(* choose among the leads with that phone.                                      *)
Duplicates(m) == IF SamePhone(m) # {} THEN SamePhone(m) ELSE SameEmail(m)

Alerted(l, m) ==
    {<<l, [kind |-> kind, ref |-> m]>> :
        kind \in {k \in {"customer_ack"} : Acknowledges} \cup {k \in {"contractor_alert"} : Alerts}}

BeginIntake(h, m, l) ==
    /\ IF Duplicates(m) = {} THEN Unused(l) ELSE l \in Duplicates(m)
    /\ Begin(h, [NoWork EXCEPT !.op = "intake", !.lead = l, !.fresh = (Duplicates(m) = {}),
                    !.contact = [phone |-> PhoneOf[m], email |-> EmailOf[m]],
                    !.loaded = Load(l), !.todo = Alerted(l, m)])
    /\ UNCHANGED <<lead, delivered, failures>>

Created(contact) ==
    [NoLead EXCEPT !.source = "email", !.phone = contact.phone, !.email = contact.email]

(* merge_duplicate fills what was empty when the lead was loaded.               *)
Filled(stored, loaded, new) == IF loaded = Nil THEN Saved(stored, loaded, new) ELSE stored
Merged(row, loaded, contact) ==
    [row EXCEPT !.phone = Filled(@, loaded.phone, contact.phone),
                !.email = Filled(@, loaded.email, contact.email)]

SentBy(h, l) == {n \in Notice : <<l, n>> \in handler[h].sent}

CommitIntake(h) ==
    LET l == handler[h].lead
        contact == handler[h].contact
        row == IF handler[h].fresh THEN Created(contact)
                                   ELSE Merged(lead[l], handler[h].loaded, contact) IN
    /\ handler[h].op = "intake"
    /\ handler[h].todo = {}
    /\ lead' = [lead EXCEPT ![l] = [row EXCEPT !.sent = @ \cup SentBy(h, l)]]
    /\ Finish(h)
    /\ UNCHANGED <<delivered, requests, failures>>

(* create_manual_lead: no lookup and no notification                            *)
CreateManualLead(l, contact) ==
    /\ Unused(l)
    /\ lead' = [lead EXCEPT ![l] = [NoLead EXCEPT !.source = "manual", !.phone = contact.phone,
                                                  !.email = contact.email]]
    /\ UNCHANGED <<delivered, handler, requests, failures>>

-------------------------------------------------------------------------------
(* ReminderEngineService.run_for_business                                       *)

Waiting(l) == Recorded(l) /\ lead[l].status = "new" /\ ~lead[l].answered
DueReminders ==
    {d \in Lead \X Threshold :
        Waiting(d[1]) /\ lead[d[1]].age >= d[2] /\ d[2] \notin lead[d[1]].reminded}

BeginReminders(h) ==
    /\ DueReminders # {}
    /\ Begin(h, [NoWork EXCEPT !.op = "reminders", !.due = DueReminders,
                    !.todo = {<<d[1], [kind |-> "owner_reminder", ref |-> d[2]]>> :
                                  d \in {e \in DueReminders : Alerts}}])
    /\ UNCHANGED <<lead, delivered, failures>>

(* A reminder counts as triggered whether or not a provider took it.            *)
CommitReminders(h) ==
    /\ handler[h].op = "reminders"
    /\ handler[h].todo = {}
    /\ lead' = [l \in Lead |->
           [lead[l] EXCEPT !.reminded = @ \cup {t \in Threshold : <<l, t>> \in handler[h].due},
                           !.sent = @ \cup SentBy(h, l)]]
    /\ Finish(h)
    /\ UNCHANGED <<delivered, requests, failures>>

-------------------------------------------------------------------------------
(* NotificationDispatchService._dispatch: skipped if a committed event shows    *)
(* the key as sent; else sent over the first channel that takes it, if any.     *)

\* Mutant: only reminders are looked up.
ReminderSent(l, n) == n \in lead[l].sent /\ n.kind = "owner_reminder"

AlreadySent(l, n) == n \in lead[l].sent

Dispatch(h, l, n, sent) ==
    /\ <<l, n>> \in handler[h].todo
    /\ sent => ~AlreadySent(l, n)
    /\ handler' = [handler EXCEPT ![h].todo = @ \ {<<l, n>>},
                                  ![h].sent = IF sent THEN @ \cup {<<l, n>>} ELSE @]
    /\ delivered' = IF sent THEN [delivered EXCEPT ![l][n] = @ + 1] ELSE delivered
    /\ UNCHANGED <<lead, requests, failures>>

-------------------------------------------------------------------------------
(* LeadLifecycleService.patch_status                                            *)

AllowedTransitions ==
    [new |-> {"contacted", "estimate_scheduled", "lost"},
     contacted |-> {"estimate_scheduled", "won", "lost"},
     estimate_scheduled |-> {"won", "lost"},
     won |-> {}, lost |-> {}]

BeginPatch(h, l, next) ==
    /\ Recorded(l)
    /\ next = lead[l].status \/ next \in AllowedTransitions[lead[l].status]
    /\ Begin(h, [NoWork EXCEPT !.op = "patch", !.lead = l, !.loaded = Load(l), !.next = next])
    /\ UNCHANGED <<lead, delivered, failures>>

CommitPatch(h) ==
    LET l == handler[h].lead
        loaded == handler[h].loaded
        next == handler[h].next IN
    /\ handler[h].op = "patch"
    /\ lead' = [lead EXCEPT
           ![l].status = Saved(@, loaded.status, next),
           ![l].answered = IF ~loaded.answered /\ next # "new" THEN TRUE ELSE @]
    /\ Finish(h)
    /\ UNCHANGED <<delivered, requests, failures>>

-------------------------------------------------------------------------------
TimePasses(l) ==
    /\ Recorded(l)
    /\ \E t \in Threshold :
          /\ t > lead[l].age
          /\ \A u \in Threshold : u > lead[l].age => t <= u
          /\ lead' = [lead EXCEPT ![l].age = t]
    /\ UNCHANGED <<delivered, handler, requests, failures>>

(* The process dies: what was not committed is gone, what was sent is not.      *)
RequestDies(h) ==
    /\ handler[h].op # "idle"
    /\ failures < MaxFailures
    /\ failures' = failures + 1
    /\ Finish(h)
    /\ UNCHANGED <<lead, delivered, requests>>

HandlerStep(h) ==
    \/ \E m \in Message, l \in Lead : BeginIntake(h, m, l)
    \/ CommitIntake(h)
    \/ BeginReminders(h)
    \/ CommitReminders(h)
    \/ \E l \in Lead, n \in Notice, sent \in BOOLEAN : Dispatch(h, l, n, sent)
    \/ \E l \in Lead, next \in Requested : BeginPatch(h, l, next)
    \/ CommitPatch(h)
    \/ RequestDies(h)

LeadNext ==
    \/ \E h \in Handler : HandlerStep(h)
    \/ \E l \in Lead, contact \in ManualContact : CreateManualLead(l, contact)
    \/ \E l \in Lead : TimePasses(l)

LeadSpec == LeadInit /\ [][LeadNext]_leadVars

-------------------------------------------------------------------------------
(* Emails of one customer, however often they are delivered, make no more leads *)
(* with his phone number than there are requests that run at the same time: the *)
(* lookup and the commit are apart, but every later lookup finds one of them.   *)
MadeByEmail(p) == {l \in Lead : lead[l].source = "email" /\ lead[l].phone = p}
DuplicatesBounded == \A p \in Phone : Cardinality(MadeByEmail(p)) <= Cardinality(Handler)

(* "No duplicate threshold reminders per lead", and no second alert for a       *)
(* message and a lead, beyond what overlaps and crashes explain: the event that *)
(* suppresses the next one commits long after the message went out.             *)
NoticesBounded ==
    \A l \in Lead, n \in Notice : delivered[l][n] <= Cardinality(Handler) + failures
===============================================================================
