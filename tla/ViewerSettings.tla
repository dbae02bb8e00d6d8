--------------------------- MODULE ViewerSettings ---------------------------
(* The server URL and the viewer token stored on the phone, and the press  *)
(* of Save that writes them one after the other under the threads that     *)
(* read them (ui/MainActivity.kt, collect/ClientPreferences.kt).  A server *)
(* keeps one family and issues one viewer token, which has its name.       *)
EXTENDS Integers, FiniteSets

CONSTANTS
    Servers,
    MaxSaves,    \* bound on presses of Save
    MaxTrouble   \* bound on failing servers, missing addresses and broken pushes

ASSUME SettingsAssumption == {"unset", "unusable"} \cap Servers = {}

None == [is |-> "none"]

VARIABLES
    url, token,  \* a server, or "unusable"; a token, or "unset"
    saving,      \* what the press of Save has still to do, or None
    saves,
    trouble

settingsVars == <<url, token, saving, saves, trouble>>

SettingsInit ==
    /\ url \in Servers \cup {"unusable"} /\ token \in Servers \cup {"unset"}
    /\ saving = None /\ saves = 0 /\ trouble = 0

hasViewerCredential == token # "unset"
readViewerConfig    == hasViewerCredential /\ url # "unusable"

\* Save writes the URL, and then the token ...
SaveUrl ==
    /\ saving = None /\ saves < MaxSaves
    /\ saves' = saves + 1
    /\ \E u \in Servers \cup {"unusable"}, t \in Servers \cup {"unset"} :
          saving' = [is |-> "saving", token |-> t] /\ url' = u
    /\ UNCHANGED <<token, trouble>>

SaveViewerToken ==
    /\ saving.is = "saving"
    /\ token' = saving.token /\ saving' = [is |-> "saved"]
    /\ UNCHANGED <<url, saves, trouble>>

\* ... and ends by clearing AlertSurface, which the modules that hold a part
\* of it add, and by asking their threads again.
Saved == saving.is = "saved" /\ saving' = None /\ UNCHANGED <<url, token, saves, trouble>>

\* The process dies: what is stored stays, a press of Save is over where it was.
Died == saving' = None /\ UNCHANGED <<url, token, saves, trouble>>

Untroubled == UNCHANGED settingsVars
Troubled   == trouble < MaxTrouble /\ trouble' = trouble + 1 /\ UNCHANGED <<url, token, saving, saves>>
=============================================================================
