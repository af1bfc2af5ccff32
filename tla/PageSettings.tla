---------------------------- MODULE PageSettings ----------------------------
(***************************************************************************)
(* The settings of one page: the operations overview, the reader's profile *)
(* and a presentation written for it, against a daemon whose state other   *)
(* pages and the command line change too.  Requests run concurrently; each *)
(* is served at once and its answer arrives in any order or never.         *)
(***************************************************************************)
EXTENDS Naturals, FiniteSets

CONSTANTS
    MaxRequests,    \* bound on the requests of the page
    MaxOthers,     \* bound on the changes others make
    MaxTokens,      \* bound on the tokens the page is given
    CommandsRace    \* whether a command reads and writes the file in two steps

ASSUME PageSettingsAssumption ==
    /\ {MaxRequests, MaxOthers, MaxTokens} \subseteq Nat
    /\ CommandsRace \in BOOLEAN

VARIABLES
    config,        \* the stored configuration: its revision and its content
    alerts,        \* the version of the daemon's alerts
    profile,       \* the revision of the stored profile
    commandRead,   \* the configuration a command has read, or NothingRead
    changed,       \* how many changes others made
    token,         \* the page's token; 0: rejected
    tokens,        \* how many it was given
    shown,         \* the overview the page shows, or NothingRead
    shownProfile,  \* the profile revision it shows; 0: none
    tailored,      \* the profile revision its presentation was written for; 0: none
    owner,         \* the action that owns the overview, by its request; 0: none
    asked,         \* how many requests the page made: names them
    askedOverview, \* operationsLoadGeneration: the request it was drawn for
    askedProfile,  \* personalizationLoadGeneration, likewise
    requests,      \* the requests under way
    unseen         \* history: an accepted update met what its page had not seen

serverVars == <<config, alerts, profile, commandRead, changed, unseen>>
pageVars == <<token, tokens, shown, shownProfile, tailored, owner,
              askedOverview, askedProfile>>
settingsVars == <<serverVars, pageVars, asked, requests>>

NothingRead == [rev |-> 0]
Body(c, a, p) == [config |-> c, alerts |-> a, profile |-> p]
Empty == Body(NothingRead, 0, 0)
Overview == Body(config, alerts, 0)
RequestKinds == {"load", "act", "config", "acknowledge", "profile", "save", "present"}
Actions == {"act", "config", "acknowledge"}

-----------------------------------------------------------------------------
(* The page asks                                                           *)

\* An action excludes the others, and the reads of the overview.
MayAsk(kind) == kind \in Actions \cup {"load"} => owner = 0

Ready(kind) ==
    /\ token # 0 /\ MayAsk(kind)
    /\ kind \in {"config", "acknowledge"} => shown # NothingRead
    /\ kind = "save" => shownProfile # 0

\* What the page knows goes with its update, to be compared.
Ask(kind) ==
    /\ Ready(kind) /\ asked < MaxRequests
    /\ asked' = asked + 1
    /\ requests' = requests \cup
         {[id |-> asked', kind |-> kind, token |-> token, stage |-> "sent",
           body |-> IF kind = "save" THEN Body(NothingRead, 0, shownProfile)
                    ELSE IF kind = "config" THEN Body(shown.config, 0, 0) ELSE Empty]}
    /\ owner' = IF kind \in Actions THEN asked' ELSE owner
    /\ askedOverview' = IF kind \in Actions \cup {"load"} THEN asked' ELSE askedOverview
    /\ askedProfile' = IF kind \in {"profile", "save"} THEN asked' ELSE askedProfile
    /\ UNCHANGED <<serverVars, token, tokens, shown, shownProfile, tailored>>

-----------------------------------------------------------------------------
(* The daemon answers                                                      *)

Reach(r, stage, answer) ==
    requests' = (requests \ {r}) \cup
                {[id |-> r.id, kind |-> r.kind, token |-> r.token,
                  stage |-> stage, body |-> answer]}

\* updateOperationalConfig: the change is merged into what is stored.
Updated == [rev |-> config.rev + 1, content |-> config.content + 1]

\* Mutant: the expected revision is not compared.
ExpectsMutant(r) == TRUE

Expects(r) ==
    IF r.kind = "save" THEN r.body.profile = profile
                       ELSE r.body.config.rev = config.rev

ServeRead(r) ==
    /\ \/ r.kind = "load" /\ r.stage = "sent" /\ Reach(r, "answered", Overview)
       \/ r.kind = "act" /\ r.stage = "sent" /\ Reach(r, "reread", Empty)
       \/ r.kind = "act" /\ r.stage = "reread" /\ Reach(r, "answered", Overview)
       \/ r.kind = "profile" /\ r.stage = "sent"
          /\ Reach(r, "answered", Body(NothingRead, 0, profile))
    /\ UNCHANGED serverVars

ServeConfig(r) ==
    /\ r.kind = "config" /\ r.stage = "sent"
    /\ IF Expects(r)
       THEN /\ config' = Updated
            /\ unseen' = (unseen \/ r.body.config # config)
            /\ Reach(r, "answered", Body(Updated, 0, 0))
       ELSE Reach(r, "failed", Empty) /\ UNCHANGED <<config, unseen>>
    /\ UNCHANGED <<alerts, profile, commandRead, changed>>

ServeAcknowledge(r) ==
    /\ r.kind = "acknowledge" /\ r.stage = "sent"
    /\ alerts' = alerts + 1
    /\ Reach(r, "answered", Body(NothingRead, alerts', 0))
    /\ UNCHANGED <<config, profile, commandRead, changed, unseen>>

\* setPersonalization aborts the presentations being written.
ServeSave(r) ==
    /\ r.kind = "save" /\ r.stage = "sent"
    /\ IF Expects(r)
       THEN profile' = profile + 1 /\ Reach(r, "answered", Body(NothingRead, 0, profile'))
       ELSE Reach(r, "conflict", Empty) /\ UNCHANGED profile
    /\ UNCHANGED <<config, alerts, commandRead, changed, unseen>>

\* The profile is taken before the call of the writer and compared after it.
ServePresent(r) ==
    /\ r.kind = "present"
    /\ LET answer == Body(NothingRead, 0, profile) IN
       \/ r.stage = "sent" /\ Reach(r, "writing", answer)
       \/ r.stage = "writing" /\ r.body = answer /\ Reach(r, "answered", answer)
       \/ r.stage = "writing" /\ r.body # answer /\ Reach(r, "failed", Empty)
    /\ UNCHANGED serverVars

Serve(r) ==
    /\ \/ ServeRead(r) \/ ServeConfig(r) \/ ServeAcknowledge(r)
       \/ ServeSave(r) \/ ServePresent(r)
    /\ UNCHANGED <<pageVars, asked>>

\* The request or its answer is lost; nobody knows whether it was served.
Lose(r) ==
    /\ r.stage # "failed"
    /\ Reach(r, "failed", Empty)
    /\ UNCHANGED <<serverVars, pageVars, asked>>

-----------------------------------------------------------------------------
(* The page takes an answer                                                *)

\* Mutant: an answer is taken whatever was asked since.
LatestMutant(r) == r.token = token

\* No other request, no action and no token since it was asked.
Latest(r) ==
    /\ r.token = token
    /\ IF r.kind = "profile" THEN r.id = askedProfile ELSE r.id = askedOverview

Merged(r) ==
    CASE r.kind \in {"load", "act"} -> r.body
      [] r.kind = "config" -> [shown EXCEPT !.config = r.body.config]
      [] r.kind = "acknowledge" -> [shown EXCEPT !.alerts = r.body.alerts]

TakeOverview(r) ==
    /\ r.kind \in Actions \cup {"load"} /\ r.stage \in {"answered", "failed"}
    /\ IF Latest(r)
       THEN /\ shown' = IF r.stage = "answered" THEN Merged(r) ELSE shown
            /\ owner' = IF r.kind \in Actions THEN 0 ELSE owner
       ELSE UNCHANGED <<shown, owner>>
    /\ requests' = requests \ {r}
    /\ UNCHANGED <<serverVars, token, tokens, shownProfile, tailored,
                   askedOverview, askedProfile, asked>>

\* Presentations are dropped when another revision is shown.
KeptFrom(rev) == IF rev = shownProfile THEN tailored ELSE 0

\* The answer to a save is shown whatever was asked since.
TakeProfile(r) ==
    /\ r.kind \in {"profile", "save"} /\ r.stage = "answered"
    /\ IF r.kind = "save" \/ Latest(r)
       THEN /\ shownProfile' = r.body.profile
            /\ tailored' = IF r.kind = "save" THEN 0 ELSE KeptFrom(r.body.profile)
       ELSE UNCHANGED <<shownProfile, tailored>>
    /\ requests' = requests \ {r}
    /\ UNCHANGED <<serverVars, token, tokens, shown, owner,
                   askedOverview, askedProfile, asked>>

\* A conflict makes the page load the profile again.
TakeConflict(r) ==
    /\ r.stage = "conflict"
    /\ IF token # 0 /\ asked < MaxRequests
       THEN /\ asked' = asked + 1 /\ askedProfile' = asked'
            /\ requests' = (requests \ {r}) \cup
                 {[id |-> asked', kind |-> "profile", token |-> token,
                   stage |-> "sent", body |-> Empty]}
       ELSE requests' = requests \ {r} /\ UNCHANGED <<asked, askedProfile>>
    /\ UNCHANGED <<serverVars, token, tokens, shown, shownProfile, tailored, owner,
                   askedOverview>>

TakeFailure(r) ==
    /\ r.kind \in {"profile", "save", "present"} /\ r.stage = "failed"
    /\ requests' = requests \ {r}
    /\ UNCHANGED <<serverVars, pageVars, asked>>

TakePresentation(r) ==
    /\ r.kind = "present" /\ r.stage = "answered"
    /\ tailored' = IF r.body.profile = shownProfile THEN shownProfile ELSE tailored
    /\ requests' = requests \ {r}
    /\ UNCHANGED <<serverVars, token, tokens, shown, shownProfile, owner,
                   askedOverview, askedProfile, asked>>

\* setToken, or unauthorized: everything the old token showed is dropped, and
\* its requests find another token.
ChangeToken ==
    /\ \/ tokens < MaxTokens /\ tokens' = tokens + 1 /\ token' = tokens'
       \/ token # 0 /\ token' = 0 /\ UNCHANGED tokens
    /\ shown' = NothingRead /\ shownProfile' = 0 /\ tailored' = 0
    /\ owner' = 0 /\ askedOverview' = 0 /\ askedProfile' = 0
    /\ UNCHANGED <<serverVars, asked, requests>>

Receive(r) == TakeOverview(r) \/ TakeProfile(r) \/ TakeConflict(r) \/ TakeFailure(r)
           \/ TakePresentation(r)

-----------------------------------------------------------------------------
(* The others                                                              *)

Count == changed < MaxOthers /\ changed' = changed + 1

\* Another page, or a command that is not interrupted.
OtherUpdate ==
    /\ Count
    /\ \/ config' = Updated /\ UNCHANGED <<alerts, profile>>
       \/ alerts' = alerts + 1 /\ UNCHANGED <<config, profile>>
       \/ profile' = profile + 1 /\ UNCHANGED <<config, alerts>>
    /\ UNCHANGED <<commandRead, unseen, pageVars, asked, requests>>

CommandReads ==
    /\ CommandsRace /\ commandRead = NothingRead /\ Count
    /\ commandRead' = config
    /\ UNCHANGED <<config, alerts, profile, unseen, pageVars, asked, requests>>

\* What was written since is overwritten; content n + 10 is another content.
CommandWrites ==
    /\ commandRead # NothingRead
    /\ config' = [rev |-> commandRead.rev + 1, content |-> commandRead.content + 10]
    /\ commandRead' = NothingRead
    /\ UNCHANGED <<alerts, profile, changed, unseen, pageVars, asked, requests>>

SettingsInit ==
    /\ config = [rev |-> 1, content |-> 1] /\ alerts = 1 /\ profile = 1
    /\ commandRead = NothingRead /\ changed = 0
    /\ token = 1 /\ tokens = 1
    /\ shown = NothingRead /\ shownProfile = 0 /\ tailored = 0
    /\ owner = 0 /\ asked = 0 /\ askedOverview = 0 /\ askedProfile = 0
    /\ requests = {} /\ unseen = FALSE

SettingsNext ==
    \/ \E kind \in RequestKinds : Ask(kind)
    \/ \E r \in requests : Serve(r) \/ Lose(r) \/ Receive(r)
    \/ ChangeToken
    \/ OtherUpdate \/ CommandReads \/ CommandWrites

SettingsSpec == SettingsInit /\ [][SettingsNext]_settingsVars

-----------------------------------------------------------------------------
(* Properties                                                              *)

\* A read that was answered before a change was accepted is never painted
\* over it: what the page shows of the overview only gets newer.
ShownGetsNewer ==
    [][ shown # NothingRead /\ shown' # NothingRead =>
          /\ shown'.config.rev >= shown.config.rev
          /\ shown'.alerts >= shown.alerts ]_settingsVars

\* An update of the configuration is accepted only from a page that has seen
\* what it changes (docs/decisions/0004-unify-local-operations.md:70).
NothingUnseen == ~unseen
=============================================================================
