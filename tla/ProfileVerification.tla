------------------------ MODULE ProfileVerification ------------------------
(***************************************************************************)
(* The verification of AdsPower profiles (packages/sync/src/profile-       *)
(* verification.ts): the command line and the dashboard open a profile's   *)
(* browser, see which TikTok shop it is logged into and link the profile   *)
(* to that shop's row, which they create when there is none.  Nothing is   *)
(* locked and every statement is a transaction of its own, so two          *)
(* verifications of one profile, each of another login, may interleave.    *)
(*                                                                         *)
(* A profile stands for its profile number too.  Shop rows are known by    *)
(* that number: one with the profile's own id is the profile's, one that a *)
(* COTIK listing made carries an id of COTIK's.                            *)
(***************************************************************************)
EXTENDS FiniteSets

CONSTANTS
    Verifier,  \* processes that verify profiles
    Profile,   \* AdsPower profiles
    TikTok,    \* TikTok shop ids
    Failure,   \* what a browser without a shop leaves: verificationStateForFailure
    None       \* null, no row

VARIABLES
    profiles,  \* adspower_profiles by profile: state, verified id and linked shop
    shops,     \* shops by profile number: whose id they carry and TikTok shop id
    pc         \* what each verification has read

vars == <<profiles, shops, pc>>

Idle == [step |-> "idle"]
Fresh == [state |-> "UNVERIFIED", verified |-> None, active |-> None]
Rejected(state) == [state |-> state, verified |-> None, active |-> None]

Init ==
    /\ profiles = [p \in Profile |-> None]
    /\ shops = [p \in Profile |-> None]
    /\ pc = [v \in Verifier |-> Idle]

Goto(v, record) == pc' = [pc EXCEPT ![v] = record]

\* The shop a query by profile id, or by TikTok shop id, finds: its number and
\* its TikTok shop id.
Found(p) == [number |-> p, tiktok |-> shops[p].tiktok]
findShopByProfileId(p) ==
    IF shops[p] # None /\ shops[p].id = "PROFILE" THEN Found(p) ELSE None
findShopByTikTokShopId(id) ==
    LET found == {p \in Profile : shops[p] # None /\ shops[p].tiktok = id}
    IN  IF found = {} THEN None ELSE Found(CHOOSE p \in found : TRUE)

----------------------------------------------------------------------------
(* One verification: verifySelectedProfile                                 *)

\* What a verification keeps of the profile's row it read.
Persisted(p) == [verified |-> profiles[p].verified, active |-> profiles[p].active]

\* The profile's row, or none yet.
Start(v, p) ==
    /\ pc[v].step = "idle"
    /\ Goto(v, [step |-> IF profiles[p] = None THEN "create" ELSE "identify",
                profile |-> p,
                persisted |-> IF profiles[p] = None THEN None ELSE Persisted(p)])
    /\ UNCHANGED <<profiles, shops>>

\* The profile id is unique: the insert that comes second throws.
createAdsPowerProfile(v) ==
    LET p == pc[v].profile
    IN  /\ pc[v].step = "create"
        /\ IF profiles[p] = None
           THEN /\ profiles' = [profiles EXCEPT ![p] = Fresh]
                /\ Goto(v, [step |-> "identify", profile |-> p, persisted |-> [verified |-> None, active |-> None]])
           ELSE Goto(v, Idle) /\ UNCHANGED profiles
        /\ UNCHANGED shops

\* The browser is opened: the TikTok shop someone has logged it into by then,
\* or a failure.
Identify(v) ==
    /\ pc[v].step = "identify"
    /\ \/ \E id \in TikTok :
             Goto(v, [step |-> "lookup", profile |-> pc[v].profile,
                      persisted |-> pc[v].persisted, identity |-> id,
                      todo |-> {"linked", "owner"}, linked |-> None, owner |-> None])
       \/ \E failure \in Failure :
             Goto(v, [step |-> "reject", profile |-> pc[v].profile, state |-> failure])
    /\ UNCHANGED <<profiles, shops>>

\* Two queries at once, each on a connection of its own.
Lookup(v, query) ==
    /\ pc[v].step = "lookup" /\ query \in pc[v].todo
    /\ Goto(v, [pc[v] EXCEPT !.todo = @ \ {query},
                             ![query] = IF query = "linked"
                                        THEN findShopByProfileId(pc[v].profile)
                                        ELSE findShopByTikTokShopId(pc[v].identity)])
    /\ UNCHANGED <<profiles, shops>>

\* The rows are compared as the queries returned them.
ProfileChanged(v) ==
    \/ pc[v].persisted.verified \notin {None, pc[v].identity}
    \/ /\ pc[v].persisted.active # None
       /\ pc[v].linked # None => pc[v].linked.number # pc[v].persisted.active
ShopChanged(v) == pc[v].linked # None /\ pc[v].linked.tiktok # pc[v].identity
OwnerChanged(v) == pc[v].owner # None /\ pc[v].owner.number # pc[v].profile

OnlyProfileChanged(v) == ProfileChanged(v) \/ OwnerChanged(v)  \* mutant

IdentityChanged(v) == ProfileChanged(v) \/ ShopChanged(v) \/ OwnerChanged(v)

Compare(v) ==
    /\ pc[v].step = "lookup" /\ pc[v].todo = {}
    /\ IF IdentityChanged(v)
       THEN Goto(v, [step |-> "reject", profile |-> pc[v].profile,
                     state |-> "SHOP_IDENTITY_CHANGED"])
       ELSE Goto(v, [step |-> "shop", profile |-> pc[v].profile,
                     identity |-> pc[v].identity, insert |-> pc[v].linked = None])
    /\ UNCHANGED <<profiles, shops>>

Reject(v) ==
    /\ pc[v].step = "reject"
    /\ profiles' = [profiles EXCEPT ![pc[v].profile] = Rejected(pc[v].state)]
    /\ Goto(v, Idle)
    /\ UNCHANGED shops

\* Profile numbers and TikTok shop ids are unique: a number that a COTIK
\* listing took first makes the insert throw.
MayStore(p, id, insert) ==
    /\ insert => shops[p] = None
    /\ \A q \in Profile \ {p} : shops[q] # None => shops[q].tiktok # id

StoreShop(v) ==
    LET p == pc[v].profile
    IN  /\ pc[v].step = "shop"
        /\ IF MayStore(p, pc[v].identity, pc[v].insert)
           THEN /\ shops' = [shops EXCEPT ![p] = [id |-> "PROFILE", tiktok |-> pc[v].identity]]
                /\ Goto(v, [step |-> "ready", profile |-> p, identity |-> pc[v].identity])
           ELSE Goto(v, Idle) /\ UNCHANGED shops
        /\ UNCHANGED profiles

\* The link, when there is one, is kept.
SetReady(v) ==
    /\ pc[v].step = "ready"
    /\ profiles' = [profiles EXCEPT ![pc[v].profile].state = "READY",
                                    ![pc[v].profile].verified = pc[v].identity]
    /\ Goto(v, [step |-> "link", profile |-> pc[v].profile])
    /\ UNCHANGED shops

\* linkAdsPowerProfileToShop reads both rows, checks them and then writes.
CheckLink(v) ==
    LET p == pc[v].profile
    IN  /\ pc[v].step = "link"
        /\ IF profiles[p].state = "READY" /\ profiles[p].verified = shops[p].tiktok
           THEN Goto(v, [step |-> "write", profile |-> p])
           ELSE Goto(v, Idle)
        /\ UNCHANGED <<profiles, shops>>

\* The table's check: a linked profile is READY with an identity.
Link(v) ==
    LET p == pc[v].profile
    IN  /\ pc[v].step = "write"
        /\ profiles' = IF profiles[p].state = "READY"
                       THEN [profiles EXCEPT ![p].active = p] ELSE profiles
        /\ Goto(v, Idle)
        /\ UNCHANGED shops

\* Any other error of the browser or the database, or the process dying.
Abandon(v) ==
    /\ pc[v].step # "idle"
    /\ Goto(v, Idle)
    /\ UNCHANGED <<profiles, shops>>

----------------------------------------------------------------------------
(* Others                                                                  *)

\* shop add and the COTIK listing: neither knows a TikTok shop id.
AddShop(p, id) ==
    /\ shops[p] = None
    /\ shops' = [shops EXCEPT ![p] = [id |-> id, tiktok |-> None]]
    /\ UNCHANGED <<profiles, pc>>

Next ==
    \/ \E v \in Verifier :
          \/ \E p \in Profile : Start(v, p)
          \/ createAdsPowerProfile(v) \/ Identify(v)
          \/ \E query \in {"linked", "owner"} : Lookup(v, query)
          \/ Compare(v) \/ Reject(v) \/ StoreShop(v) \/ SetReady(v)
          \/ CheckLink(v) \/ Link(v) \/ Abandon(v)
    \/ \E p \in Profile, id \in {"PROFILE", "COTIK"} : AddShop(p, id)

Spec == Init /\ [][Next]_vars

----------------------------------------------------------------------------
(* Properties                                                              *)

\* The types of the variables.
TypeOK ==
    /\ profiles \in [Profile -> {None} \cup
                       [state : Failure \cup {"UNVERIFIED", "READY", "SHOP_IDENTITY_CHANGED"},
                        verified : TikTok \cup {None}, active : Profile \cup {None}]]
    /\ shops \in [Profile -> {None} \cup
                    [id : {"PROFILE", "COTIK"}, tiktok : TikTok \cup {None}]]
    /\ \A v \in Verifier : pc[v].step \in {"idle", "create", "identify", "lookup", "reject",
                                           "shop", "ready", "link", "write"}

\* A linked profile has proved the identity of its shop: what was verified of
\* the profile is the TikTok shop of the row it is linked to, and no other
\* row has that identity, however verifications of changing logins overlap.
LinkProvesIdentity ==
    \A p \in Profile :
        profiles[p] # None /\ profiles[p].active # None =>
            /\ shops[profiles[p].active].tiktok = profiles[p].verified
            /\ Cardinality({q \in Profile : shops[q] # None
                                /\ shops[q].tiktok = profiles[p].verified}) = 1
=============================================================================
