------------------------------ MODULE Startup ------------------------------
(* The way from an environment to a listening server (cmd/tracker,         *)
(* runServe; internal/config; internal/db, Up, Version and Open), next to  *)
(* an operator's command that loads the same configuration and migrates    *)
(* the same database (openForCommand), and to config-lint.                 *)
(*                                                                         *)
(* Windows and durations are 64-bit integers in the code.  Here they have  *)
(* the width Top says, and a second and a day are small multiples of the   *)
(* unit of time.Duration, so that the products that can wrap around do.    *)
EXTENDS Integers

CONSTANTS
    Environments,  \* environments: see Env
    Top,           \* 2^63: values are -Top .. Top - 1
    Second, Day,   \* time.Second, 24 * time.Hour
    Interval,      \* streamPollInterval
    DefaultLive, DefaultStale,
    Latest,        \* the last migration the binary carries
    MaxTrouble     \* bound on failures of the database and of the network

ASSUME StartupAssumption ==
    /\ Top \in Nat \ {0} /\ Second \in Nat \ {0} /\ Day \in Nat \ {0}
    /\ Second % 2 = 0 /\ Interval = Second /\ Second < Top
    /\ DefaultLive \in Nat \ {0} /\ DefaultStale \in Nat \ {0}
    /\ Latest \in Nat /\ MaxTrouble \in Nat

\* The value of an integer variable: unset or blank, not a number (or one out
\* of range), or a number.
Raw == [is : {"unset", "junk", "number"}, n : (-Top) .. (Top - 1)]

Env == [dsn : {"", "wrong", "postgres"}, level : {"", "loud", "info"},
        provider : {"", "fcm", "unifiedpush", "other"}, project : {"", "set"},
        credentials : {"", "malformed", "key"},
        cert : {"", "set"}, key : {"", "set"}, plaintext : {"", "0", "1"},
        days : Raw, live : Raw, stale : Raw]

ASSUME EnvAssumption == Environments \subseteq Env

NoConfig == [live |-> 0, stale |-> 0, days |-> 0]
NoJob    == [started |-> FALSE, window |-> 0]

VARIABLES
    env,      \* the environment of all three processes
    server,   \* where runServe is
    config,   \* what Load made of it, for the server
    job,      \* the retention job it started
    command,  \* where openForCommand is
    lint,     \* what config-lint has said of the TLS settings
    schema,   \* the database's schema version
    read,     \* the version each migrator read last
    trouble

startupVars == <<env, server, config, job, command, lint, schema, read, trouble>>

StartupInit ==
    /\ env \in Environments
    /\ server = "load" /\ config = NoConfig /\ job = NoJob
    /\ command = "load" /\ lint = "unasked"
    /\ schema \in 0 .. Latest
    /\ read = [p \in {"server", "command"} |-> 0]
    /\ trouble = 0

-----------------------------------------------------------------------------
(* internal/config.                                                        *)

\* envInt and envWindowSeconds: a window must also be positive.
envInt(raw, def) ==
    IF raw.is = "unset" THEN [ok |-> TRUE, n |-> def] ELSE [ok |-> raw.is = "number", n |-> raw.n]
envWindowSeconds(raw, def) ==
    LET v == envInt(raw, def) IN [v EXCEPT !.ok = @ /\ v.n >= 1]

envBool(word) == word = "1"

ServesTLS == env.cert # "" /\ env.key # ""

validateTLSPair(cert, key) == (cert # "") <=> (key # "")

LintTLS == validateTLSPair(env.cert, env.key) /\ env.cert # ""

EffectiveLive  == envWindowSeconds(env.live, DefaultLive)
EffectiveStale == envWindowSeconds(env.stale, DefaultStale)
EffectiveDays  == envInt(env.days, 0)

validPush == \/ env.provider \in {"", "unifiedpush"}
             \/ env.provider = "fcm" /\ env.project # "" /\ env.credentials # ""

\* The order is that of the effective pair, defaults included.
validate ==
    /\ env.dsn = "postgres" /\ env.level # "loud"
    /\ validPush
    /\ validateTLSPair(env.cert, env.key)
    /\ EffectiveDays.n >= 0
    /\ EffectiveLive.n < EffectiveStale.n

Load == env.dsn # "" /\ EffectiveDays.ok /\ EffectiveLive.ok /\ EffectiveStale.ok /\ validate

RequireServable == ServesTLS \/ envBool(env.plaintext)

-----------------------------------------------------------------------------
(* Arithmetic of the machine.                                              *)

Wrap(n) == ((n + Top) % (2 * Top)) - Top

\* Go's division truncates toward zero.
Halve(n) == IF n >= 0 THEN n \div 2 ELSE -((-n) \div 2)

SweepBoundOf(c) ==
    LET band == c.stale - c.live
        least == IF band < c.live THEN band ELSE c.live IN
    IF least \div 2 > 1 THEN least \div 2 ELSE 1

\* Mutant: half of the wrapped product is taken as it is.
streamPollTickUnguarded(c) ==
    LET half == Halve(Wrap(SweepBoundOf(c) * Second)) IN
    IF half < Interval THEN half ELSE Interval

streamPollTick(c) ==
    LET half == Halve(Wrap(SweepBoundOf(c) * Second)) IN
    IF half > 0 /\ half < Interval THEN half ELSE Interval

-----------------------------------------------------------------------------
(* db.Up, for either process: goose reads the version, applies the next    *)
(* migration and records it in one transaction, and reads again; no lock   *)
(* is held over the two.                                                   *)

Others(p) == IF p = "server" THEN UNCHANGED <<config, job, command>> ELSE UNCHANGED <<server, config, job>>
At(p, pc) == IF p = "server" THEN server = pc ELSE command = pc
Go(p, pc) == IF p = "server" THEN server' = pc ELSE command' = pc

ReadVersion(p) ==
    /\ At(p, "up")
    /\ read' = [read EXCEPT ![p] = schema]
    /\ Go(p, IF schema = Latest THEN IF p = "server" THEN "version" ELSE "open" ELSE "apply")
    /\ Others(p) /\ UNCHANGED <<env, lint, schema, trouble>>

\* Whoever comes second finds the objects there and fails, unless the
\* migration is one that may be run twice.
ApplyMigration(p) ==
    /\ At(p, "apply")
    /\ \/ schema = read[p] /\ schema' = schema + 1 /\ Go(p, "up")
       \/ schema # read[p] /\ Go(p, "up") /\ UNCHANGED schema
       \/ schema # read[p] /\ Go(p, "exit") /\ UNCHANGED schema
    /\ Others(p) /\ UNCHANGED <<env, lint, read, trouble>>

\* Mutant: a migration error is a warning.
DatabaseFailsWarning(p) ==
    /\ \E pc \in {"up", "apply", "version", "open"} : At(p, pc)
    /\ trouble < MaxTrouble /\ trouble' = trouble + 1
    /\ Go(p, IF At(p, "up") \/ At(p, "apply") THEN "open" ELSE "exit")
    /\ Others(p) /\ UNCHANGED <<env, lint, schema, read>>

\* Connecting, a migration, the version query or Open's ping fails: fatal.
DatabaseFails(p) ==
    /\ \E pc \in {"up", "apply", "version", "open"} : At(p, pc)
    /\ trouble < MaxTrouble /\ trouble' = trouble + 1
    /\ Go(p, "exit")
    /\ Others(p) /\ UNCHANGED <<env, lint, schema, read>>

-----------------------------------------------------------------------------
(* runServe, step by step; each error is the end of the process.           *)

ServerOnly == UNCHANGED <<env, command, lint, schema, read>>

LoadServer ==
    /\ server = "load"
    /\ IF Load /\ RequireServable
       THEN /\ server' = "up"
            /\ config' = [live |-> EffectiveLive.n, stale |-> EffectiveStale.n, days |-> EffectiveDays.n]
       ELSE server' = "exit" /\ UNCHANGED config
    /\ ServerOnly /\ UNCHANGED <<job, trouble>>

Version ==
    /\ server = "version" /\ server' = "open"
    /\ ServerOnly /\ UNCHANGED <<config, job, trouble>>

Open ==
    /\ server = "open" /\ server' = "partitions"
    /\ ServerOnly /\ UNCHANGED <<config, job, trouble>>

\* EnsurePartitions, which Retention models.
Provision ==
    /\ server = "partitions"
    /\ \/ server' = "notifier" /\ UNCHANGED trouble
       \/ server' = "exit" /\ trouble < MaxTrouble /\ trouble' = trouble + 1
    /\ ServerOnly /\ UNCHANGED <<config, job>>

\* The key file is read and parsed here, not at the first crossing.
buildPushNotifier ==
    /\ server = "notifier"
    /\ server' = IF env.provider = "fcm" /\ env.credentials # "key" THEN "exit" ELSE "retention"
    /\ ServerOnly /\ UNCHANGED <<config, job, trouble>>

\* time.Duration(cfg.RetentionDays) * 24 * time.Hour.
StartRetention ==
    /\ server = "retention" /\ server' = "listen"
    /\ job' = IF config.days > 0 THEN [started |-> TRUE, window |-> Wrap(config.days * Day)] ELSE job
    /\ ServerOnly /\ UNCHANGED <<config, trouble>>

\* ListenAndServe, or its TLS form; the port may be taken, or a file of the
\* pair be unreadable.
Listen ==
    /\ server = "listen"
    /\ \/ server' = (IF ServesTLS THEN "tls" ELSE "plaintext") /\ UNCHANGED trouble
       \/ server' = "exit" /\ trouble < MaxTrouble /\ trouble' = trouble + 1
    /\ ServerOnly /\ UNCHANGED <<config, job>>

LoadCommand ==
    /\ command = "load"
    /\ command' = IF Load THEN "up" ELSE "exit"
    /\ UNCHANGED <<env, server, config, job, lint, schema, read, trouble>>

OpenCommand ==
    /\ command = "open" /\ command' = "ran"
    /\ UNCHANGED <<env, server, config, job, lint, schema, read, trouble>>

runConfigLint ==
    /\ lint = "unasked"
    /\ lint' = IF LintTLS THEN "ok" ELSE "problem"
    /\ UNCHANGED <<env, server, config, job, command, schema, read, trouble>>

StartupNext ==
    \/ LoadServer \/ Version \/ Open \/ Provision \/ buildPushNotifier \/ StartRetention \/ Listen
    \/ LoadCommand \/ OpenCommand \/ runConfigLint
    \/ \E p \in {"server", "command"} : ReadVersion(p) \/ ApplyMigration(p) \/ DatabaseFails(p)

StartupSpec == StartupInit /\ [][StartupNext]_startupVars

-----------------------------------------------------------------------------
(* Properties.                                                             *)

Listening == server \in {"tls", "plaintext"}

\* Nothing runs on a half-migrated schema, although a command and the starting
\* server migrate the same database at the same time without a lock
\* (internal/db/db.go:47-70, cmd/tracker/main.go:123-137).
RunsMigrated == Listening \/ command = "ran" => schema = Latest

\* Plaintext is never an accident: a server that listens without TLS was told
\* so, and neither half of a TLS pair was given to it; a configuration the
\* lint has passed is served encrypted or not at all
\* (internal/config/config.go:270-312).
NoAccidentalPlaintext ==
    server = "plaintext" => /\ env.plaintext = "1" /\ env.cert = "" /\ env.key = ""
                            /\ lint # "ok"

\* The stream polls at least twice within each band of the windows it serves,
\* so that no value is stepped over, whatever windows were configured or
\* defaulted and although the product that makes the tick can wrap around; and
\* the tick is positive, without which time.NewTicker panics
\* (internal/server/stream.go:61-78, internal/presentation/presentation.go:93-111).
PollMeetsTheBound ==
    Listening => LET tick == streamPollTick(config) IN
        /\ tick > 0
        /\ 2 * tick <= config.live * Second
        /\ 2 * tick <= (config.stale - config.live) * Second

\* What is purged is older than the configured days: the window the job works
\* with is never shorter (internal/config/config.go:75-77).
OnlyOlderIsPurged == job.started => job.window >= config.days * Day

=============================================================================
