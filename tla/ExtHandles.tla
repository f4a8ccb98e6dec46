----------------------------- MODULE ExtHandles -----------------------------
(***************************************************************************)
(* The owned handles of the zenoh-ext wrappers: querying_subscriber.rs and *)
(* publication_cache.rs, seen from the application that declares, checks   *)
(* and undeclares them, and the sample closure the querying subscriber     *)
(* takes from it.                                                          *)
(*                                                                         *)
(* A handle variable of the application holds NullHandle (None) or the    *)
(* subscriber (publication cache) zenoh-ext built for it.  A closure is a  *)
(* model value; the application's z_owned_closure_sample_t variable `cb`   *)
(* holds one or Empty.  Whether the session's weak pointer still upgrades *)
(* and whether zenoh-ext's res()/close() succeed are choices of each call. *)
(***************************************************************************)
EXTENDS Integers, FiniteSets

CONSTANTS
    Closures,       \* the sample closures the application builds
    Subs,           \* identities of the FetchingSubscribers zenoh-ext builds
    Vars,           \* the application's ze_owned_querying_subscriber_t variables
    PcVars,         \* its ze_owned_publication_cache_t variables
    Empty,          \* z_owned_closure_sample_t::empty()
    NullHandle,     \* the None of an owned handle
    CloseErr,       \* the errno of a failed close, as ze_undeclare returns it
    Histories,      \* values of ze_publication_cache_options_t.history
    Limits,         \* values of its resources_limit, NoLimit for None
    NoLimit,
    NoOptions,      \* the options pointer is NULL
    BuilderDefault  \* the configuration zenoh-ext's builder starts from

ASSUME Empty \notin Closures /\ NullHandle \notin Subs /\ CloseErr # 0

VARIABLES
    cb,         \* the application's callback variable
    fresh,      \* closures not built yet
    drops,      \* how many times each closure's drop has run
    late,       \* closures called after their drop ran
    subs,       \* each subscriber: "unused", "open" or "closed", and its closure
    qs,         \* each querying subscriber variable
    pcs,        \* each publication cache variable: NullHandle or its configuration
    ret         \* what the last call returned, tagged by the call

vars == <<cb, fresh, drops, late, subs, qs, pcs, ret>>

Options == [history : Histories, limit : Limits]

(* ze_querying_subscriber_null() and ze_publication_cache_null(): None *)
QueryingSubscriberNull == [v \in Vars |-> NullHandle]
PublicationCacheNull   == [v \in PcVars |-> NullHandle]

Init ==
    /\ cb = Empty
    /\ fresh = Closures
    /\ drops = [c \in Closures |-> 0]
    /\ late = {}
    /\ subs = [s \in Subs |-> [state |-> "unused", closure |-> Empty]]
    /\ qs = QueryingSubscriberNull
    /\ pcs = PublicationCacheNull
    /\ ret = [none |-> TRUE]

(* running a closure's drop, if there is a closure *)
DropClosure(c) == IF c = Empty THEN drops ELSE [drops EXCEPT ![c] = @ + 1]

-----------------------------------------------------------------------------
(* The application.  z_closure builds a closure into its empty variable;  *)
(* z_closure_sample_drop runs its drop and leaves the variable empty.      *)
BuildClosure(c) ==
    /\ c \in fresh /\ cb = Empty
    /\ cb' = c /\ fresh' = fresh \ {c}
    /\ UNCHANGED <<drops, late, subs, qs, pcs, ret>>

DropCallback ==
    /\ cb # Empty
    /\ drops' = DropClosure(cb) /\ cb' = Empty
    /\ UNCHANGED <<fresh, late, subs, qs, pcs, ret>>

-----------------------------------------------------------------------------
(* mutant: the callback is copied out of the caller's variable, not moved *)
DeclareCopiesCallback(v, s, alive, ok) ==
    /\ qs[v] = NullHandle /\ subs[s].state = "unused"
    /\ IF alive /\ ok
       THEN /\ subs' = [subs EXCEPT ![s] = [state |-> "open", closure |-> cb]]
            /\ qs' = [qs EXCEPT ![v] = s]
            /\ UNCHANGED drops
       ELSE /\ drops' = DropClosure(cb)
            /\ UNCHANGED <<subs, qs>>
    /\ UNCHANGED <<cb, fresh, late, pcs, ret>>

(* ze_declare_querying_subscriber into the null variable v: the callback   *)
(* is swapped out of the caller's variable first; without a session, or    *)
(* when zenoh-ext's res() fails (the builder owning the callback is then   *)
(* dropped), the closure is dropped and None returned, else the new        *)
(* subscriber s owns it                                                    *)
Declare(v, s, alive, ok) ==
    /\ qs[v] = NullHandle /\ subs[s].state = "unused"
    /\ cb' = Empty
    /\ IF alive /\ ok
       THEN /\ subs' = [subs EXCEPT ![s] = [state |-> "open", closure |-> cb]]
            /\ qs' = [qs EXCEPT ![v] = s]
            /\ UNCHANGED drops
       ELSE /\ drops' = DropClosure(cb)
            /\ UNCHANGED <<subs, qs>>
    /\ UNCHANGED <<fresh, late, pcs, ret>>

(* zenoh-ext hands a sample to an open subscriber, whose callback passes  *)
(* it to z_closure_sample_call (an empty closure only logs an error)       *)
Deliver(s) ==
    /\ subs[s].state = "open"
    /\ late' = IF subs[s].closure # Empty /\ drops[subs[s].closure] > 0
               THEN late \cup {subs[s].closure} ELSE late
    /\ UNCHANGED <<cb, fresh, drops, subs, qs, pcs, ret>>

(* mutant: the subscriber is closed through as_mut() without take() *)
UndeclareWithoutTake(v, ok) ==
    IF qs[v] = NullHandle
    THEN ret' = [undeclare |-> 0] /\ UNCHANGED <<cb, fresh, drops, late, subs, qs, pcs>>
    ELSE /\ subs' = [subs EXCEPT ![qs[v]].state = "closed"]
         /\ drops' = DropClosure(subs[qs[v]].closure)
         /\ ret' = [undeclare |-> IF ok THEN 0 ELSE CloseErr]
         /\ UNCHANGED <<cb, fresh, late, qs, pcs>>

(* mutant: when close fails, the callback is handed back to the caller's *)
(* empty variable instead of being dropped                                *)
UndeclareReturnsCallback(v, ok) ==
    IF qs[v] = NullHandle
    THEN ret' = [undeclare |-> 0] /\ UNCHANGED <<cb, fresh, drops, late, subs, qs, pcs>>
    ELSE /\ qs' = [qs EXCEPT ![v] = NullHandle]
         /\ subs' = [subs EXCEPT ![qs[v]].state = "closed"]
         /\ IF ~ok /\ cb = Empty
            THEN cb' = subs[qs[v]].closure /\ UNCHANGED drops
            ELSE drops' = DropClosure(subs[qs[v]].closure) /\ UNCHANGED cb
         /\ ret' = [undeclare |-> IF ok THEN 0 ELSE CloseErr]
         /\ UNCHANGED <<fresh, late, pcs>>

(* ze_undeclare_querying_subscriber: take() the subscriber out of the      *)
(* variable and close() it, which consumes it: the subscription ends and   *)
(* its callback is dropped whether close succeeds or returns its errno;    *)
(* on the null variable nothing happens and 0 is returned                 *)
Undeclare(v, ok) ==
    IF qs[v] = NullHandle
    THEN ret' = [undeclare |-> 0] /\ UNCHANGED <<cb, fresh, drops, late, subs, qs, pcs>>
    ELSE /\ qs' = [qs EXCEPT ![v] = NullHandle]
         /\ subs' = [subs EXCEPT ![qs[v]].state = "closed"]
         /\ drops' = DropClosure(subs[qs[v]].closure)
         /\ ret' = [undeclare |-> IF ok THEN 0 ELSE CloseErr]
         /\ UNCHANGED <<cb, fresh, late, pcs>>

(* ze_querying_subscriber_check *)
Check(v) ==
    /\ ret' = [check |-> qs[v] # NullHandle]
    /\ UNCHANGED <<cb, fresh, drops, late, subs, qs, pcs>>

-----------------------------------------------------------------------------
(* ze_declare_publication_cache into the null variable v: None without a  *)
(* session or with an uninitialized key expression or when res_sync       *)
(* fails; with options, history and (if Some) resources_limit are set on  *)
(* the builder, without them the builder's own defaults stay              *)
(* mutant: a missing resources_limit is passed on as 0 *)
ConfiguredLimitDefaulted(opts) ==
    IF opts = NoOptions THEN BuilderDefault
    ELSE [history |-> opts.history, limit |-> IF opts.limit = NoLimit THEN 0 ELSE opts.limit]

Configured(opts) ==
    IF opts = NoOptions THEN BuilderDefault
    ELSE [history |-> opts.history,
          limit |-> IF opts.limit = NoLimit THEN BuilderDefault.limit ELSE opts.limit]

DeclareCache(v, alive, keyexprValid, opts, ok) ==
    /\ pcs[v] = NullHandle
    /\ pcs' = [pcs EXCEPT ![v] = IF alive /\ keyexprValid /\ ok THEN Configured(opts)
                                 ELSE NullHandle]
    /\ UNCHANGED <<cb, fresh, drops, late, subs, qs, ret>>

(* ze_publication_cache_check *)
CheckCache(v) ==
    /\ ret' = [check |-> pcs[v] # NullHandle]
    /\ UNCHANGED <<cb, fresh, drops, late, subs, qs, pcs>>

-----------------------------------------------------------------------------
Next ==
    \/ \E c \in Closures : BuildClosure(c)
    \/ DropCallback
    \/ \E v \in Vars, s \in Subs, alive, ok \in BOOLEAN : Declare(v, s, alive, ok)
    \/ \E s \in Subs : Deliver(s)
    \/ \E v \in Vars, ok \in BOOLEAN : Undeclare(v, ok)
    \/ \E v \in Vars : Check(v)
    \/ \E v \in PcVars, alive, kv, ok \in BOOLEAN, o \in Options \cup {NoOptions} :
          DeclareCache(v, alive, kv, o, ok)
    \/ \E v \in PcVars : CheckCache(v)

Spec == Init /\ [][Next]_vars

-----------------------------------------------------------------------------
Holders(c) == {x \in {"cb"} : cb = c} \cup
              {s \in Subs : subs[s].state = "open" /\ subs[s].closure = c}

TypeOK ==
    /\ cb \in Closures \cup {Empty}
    /\ fresh \subseteq Closures
    /\ drops \in [Closures -> Nat]
    /\ late \subseteq Closures
    /\ subs \in [Subs -> [state : {"unused", "open", "closed"}, closure : Closures \cup {Empty}]]
    /\ qs \in [Vars -> Subs \cup {NullHandle}]
    /\ pcs \in [PcVars -> {NullHandle} \cup [history : Histories \cup {BuilderDefault.history},
                                              limit : Limits]]
    /\ ret \in {[none |-> TRUE]} \cup [undeclare : {0, CloseErr}] \cup [check : BOOLEAN]

(* The ownership of a sample closure moves from the application to the    *)
(* querying subscriber and ends with it: every closure built is held by   *)
(* exactly one of the application's variable and an open subscriber until *)
(* its drop runs, and its drop runs exactly once, when the last holder     *)
(* lets go (a failed declaration, an undeclare whatever close returns, or *)
(* z_closure_sample_drop); so no callback is called after its drop.        *)
ClosureAccounting ==
    \A c \in Closures \ fresh :
        /\ Cardinality(Holders(c)) + drops[c] = 1
        /\ c \notin late

(* ze_querying_subscriber_check answers true exactly when the variable    *)
(* holds a subscription that is still open ("to check if the subscription *)
(* succeeded and if the querying subscriber is still valid"), also after  *)
(* an undeclare whose close() failed.                                      *)
CheckMeansSubscribed ==
    [][\A v \in Vars :
          Check(v) => ret'.check = (qs[v] # NullHandle /\ subs[qs[v]].state = "open")]_vars
(* The closure life cycle of ze_declare_querying_subscriber and         *)
(* ze_undeclare_querying_subscriber implements ClosureOwnership: read off *)
(* the caller's variable and the open subscribers, a closure goes from    *)
(* the caller to a subscription at most once and never back, and is       *)
(* released from whichever owns it, through every failure path.           *)
Owner(c) ==
    CASE c \in fresh -> "unbuilt"
      [] cb = c -> "caller"
      [] \E s \in Subs : subs[s].state = "open" /\ subs[s].closure = c -> "subscriber"
      [] OTHER -> "released"

Abstract == INSTANCE ClosureOwnership WITH owner <- [c \in Closures |-> Owner(c)]

ImplementsClosureOwnership == Abstract!Spec
====
