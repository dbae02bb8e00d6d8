------------------------------ MODULE MCParts ------------------------------
(* The parts that share no state with one another, for TLC: FamilyAccess,  *)
(* HistoryPaging, TokenSource, Startup, BootRestart, VulnGate and          *)
(* CivilDays.  `part` says which of them a behaviour is about; the others  *)
(* rest in one of their initial states.                                    *)
EXTENDS FamilyAccess, HistoryPaging, TokenSource, Startup, BootRestart, VulnGate, CivilDays, TLC

CONSTANT Parts

VARIABLE part

partsVars == <<accessVars, pagingVars, tokenVars, startupVars, bootVars, vulnVars, civilVars, part>>

(* The environments: the settings that act together vary together, the     *)
(* others have a value that lets the server start.                         *)
Number(k) == [is |-> "number", n |-> k]
Numbers   == {[is |-> w, n |-> 0] : w \in {"unset", "junk"}} \cup {Number(k) : k \in -1 .. Top - 1}

Sound == [dsn |-> "postgres", level |-> "", provider |-> "", project |-> "", credentials |-> "",
          cert |-> "set", key |-> "set", plaintext |-> "",
          days |-> Number(1), live |-> Number(2), stale |-> Number(6)]

MCEnvironments ==
    {[Sound EXCEPT !.dsn = d, !.level = l] : d \in {"", "wrong", "postgres"}, l \in {"", "loud", "info"}}
    \cup {[Sound EXCEPT !.provider = p, !.project = j, !.credentials = c] :
             p \in {"", "fcm", "unifiedpush", "other"}, j \in {"", "set"}, c \in {"", "malformed", "key"}}
    \cup {[Sound EXCEPT !.cert = c, !.key = k, !.plaintext = p] :
             c, k \in {"", "set"}, p \in {"", "0", "1"}}
    \cup {[Sound EXCEPT !.live = l, !.stale = s] : l, s \in Numbers}
    \cup {[Sound EXCEPT !.days = d] : d \in Numbers}

PartsInit ==
    /\ part \in Parts
    /\ AccessInit /\ PagingInit /\ TokenInit /\ StartupInit /\ BootInit /\ VulnInit /\ CivilInit
    /\ part # "paging"  => trail = {}
    /\ part # "startup" => env = Sound /\ schema = Latest
    /\ part # "boot"    => hand = "person"
    /\ part # "vuln"    => entries = <<>>

PartsNext ==
    \/ /\ part = "access" /\ AccessNext
       /\ UNCHANGED <<part, pagingVars, tokenVars, startupVars, bootVars, vulnVars, civilVars>>
    \/ /\ part = "paging" /\ PagingNext
       /\ UNCHANGED <<part, accessVars, tokenVars, startupVars, bootVars, vulnVars, civilVars>>
    \/ /\ part = "token" /\ TokenNext
       /\ UNCHANGED <<part, accessVars, pagingVars, startupVars, bootVars, vulnVars, civilVars>>
    \/ /\ part = "startup" /\ StartupNext
       /\ UNCHANGED <<part, accessVars, pagingVars, tokenVars, bootVars, vulnVars, civilVars>>
    \/ /\ part = "boot" /\ BootNext
       /\ UNCHANGED <<part, accessVars, pagingVars, tokenVars, startupVars, vulnVars, civilVars>>
    \/ /\ part = "vuln" /\ VulnNext
       /\ UNCHANGED <<part, accessVars, pagingVars, tokenVars, startupVars, bootVars, civilVars>>
    \/ /\ part = "civil" /\ CivilNext
       /\ UNCHANGED <<part, accessVars, pagingVars, tokenVars, startupVars, bootVars, vulnVars>>

PartsSpec == PartsInit /\ [][PartsNext]_partsVars

\* Families and tokens are interchangeable.
PartsSymmetry == Permutations(Families) \cup Permutations(Tokens)
=============================================================================
