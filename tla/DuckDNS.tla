------------------------------- MODULE DuckDNS -------------------------------
(***************************************************************************)
(* Dynamic DNS with DuckDNS (duckdns.go) and what changes its credentials: *)
(* POST /api/duckdns and POST /api/config (main.go), the shared Config and *)
(* its file (config_storage.go).  The manager's mutex guards single reads  *)
(* and writes, never a whole update, and the fields of Config have none.   *)
(* IP addresses and the wording of messages are left out; of a message     *)
(* only the domain it names is kept, and of the Cloud Hub manager that it  *)
(* names the server too.  Domains and tokens are as they were spelled, and *)
(* have one length, so that a string read while it is written is the old   *)
(* one or the new one; line breaks and quotes in them are left out.  What  *)
(* a start knows is what the file says: flags and environment variables    *)
(* that overrule it at every start are left out, and so is the copy of the *)
(* file that lbu commits on an appliance.                                  *)
(***************************************************************************)
EXTENDS Nothing, Naturals

CONSTANTS
  Poster,       \* bound: requests of the two kinds, each with its handler
  Loop,         \* bound: background loops at a time, which all do the same
  Domain, Token, \* spellings of them
  Name,         \* what the server can be called by, white space around it aside
  WanAddress, HubName,  \* the address found at the start; the name the Cloud Hub gives
  Trim,         \* what strings.TrimSpace makes of a spelling
  Clean,        \* what cleanDuckDomain makes of that of a domain
  FullName,     \* the name formatFullDomain makes of it
  Good,         \* the credentials DuckDNS accepts
  Starts,       \* what may be in the file when the server is first started
  Asked,        \* credentials that requests give
  Hub,          \* the Cloud Hub is configured
  MaxConfigs,   \* bound: those of them that are POST /api/config
  MaxRestarts   \* bound: times the process dies and starts again

Cred == (Domain \cup {None}) \X (Token \cup {None})
Blank == <<None, None>>
Content == [host: Name \cup {None}, cred: Cred]
Empty == [host |-> None, cred |-> Blank]

\* "" stays "", but a spelling can be of white space alone.
ASSUME SpellingAssumption ==
  /\ None \notin Domain \cup Token \cup Name /\ {WanAddress, HubName} \subseteq Name
  /\ \A d \in Domain \cup {None} :
       /\ {Trim[d], Clean[d]} \subseteq Domain \cup {None} /\ FullName[d] \in Name \cup {None}
       /\ Clean[Trim[d]] = Clean[d] /\ Trim[Trim[d]] = Trim[d]
  /\ \A t \in Token \cup {None} : Trim[t] \in Token \cup {None} /\ Trim[Trim[t]] = Trim[t]
  /\ Trim[None] = None /\ Clean[None] = None /\ FullName[None] = None

ASSUME DuckAssumption ==
  /\ Poster \cap Loop = {} /\ None \notin Poster \cup Loop
  /\ Good \subseteq Domain \X Token /\ Hub \in BOOLEAN
  /\ Starts \subseteq Content
  /\ \A f \in Starts : f.host \in {None, WanAddress, FullName[Trim[f.cred[1]]]}
  /\ MaxConfigs \in Nat /\ MaxRestarts \in Nat
  /\ Asked \subseteq Cred /\ Loop # {}

VARIABLES
  cred,         \* d.domain, d.token
  status,       \* d.status
  conf,         \* cfg.DuckDomain, cfg.DuckToken
  host,         \* cfg.PublicIP
  file,         \* what is in the configuration file
  at,           \* where a handler or a loop is
  tried,        \* the credentials of its update
  input,        \* the request a handler answers
  content,      \* what it has formatted to write
  configs, restarts,
  trusted,      \* history: credentials, cleaned, that DuckDNS has accepted, or that
                \* the server was first started with or /api/config has set untested
  stale,        \* history: the last save wrote the file ("no"), left it as it was
                \* ("old") or has cut it off, with nothing in it ("cut")
  crossed,      \* history: handlers whose update tested another's credentials, or that
                \* assign and save while another does
  mixed         \* history: one of them has, and no other /api/duckdns has saved since

counters == <<configs, restarts>>
config == <<conf, host, file>>
duckHist == <<trusted, stale, crossed, mixed>>
duckVars == <<cred, status, config, at, tried, input, content, counters, duckHist>>

Task == Poster \cup Loop
Complete(c) == c[1] # None /\ c[2] # None
Cleaned(c) == <<Clean[c[1]], Trim[c[2]]>>       \* as the manager keeps it
Trimmed(c) == <<Trim[c[1]], Trim[c[2]]>>        \* as LoadEnvFile and /api/config do
Status == [domain: Domain \cup {None}, success: BOOLEAN, about: Domain \cup {None}]
Fresh(c) == [domain |-> c[1], success |-> FALSE, about |-> None]

Updating == {"call", "sent", "callback"}
Assigning == {"domain", "token", "host", "save", "writing"}
DuckPlace == Updating \cup Assigning \cup {"off", "idle", "written"}

DuckTypeOK ==
  /\ cred \in Cred /\ conf \in Cred /\ status \in Status
  /\ host \in Name \cup {None} /\ file \in Content
  /\ at \in [Task -> DuckPlace] /\ tried \in [Task -> Cred]
  /\ input \in [Poster -> Cred \X {"duckdns", "config"}]
  /\ content \in [Poster -> Content]
  /\ configs \in 0..MaxConfigs /\ restarts \in 0..MaxRestarts
  /\ trusted \subseteq Cred /\ stale \in {"no", "old", "cut"}
  /\ crossed \subseteq Poster /\ mixed \in BOOLEAN
  /\ \A k \in Task : at[k] \in {"sent", "callback"} => Complete(tried[k])

\* Main starts one loop if credentials are configured.
FirstLoop == CHOOSE l \in Loop : TRUE
LoopsOf(c, k) == IF k = FirstLoop /\ Complete(c) THEN "call" ELSE "off"
HostAtStart(saved) ==
  IF saved.host # None THEN saved.host
  ELSE IF Trim[saved.cred[1]] # None THEN FullName[Trim[saved.cred[1]]] ELSE WanAddress

\* The server starts with what the file says.
NoRequest == [k \in Poster |-> <<Blank, "duckdns">>]

DuckInit ==
  /\ file \in Starts
  /\ conf = Trimmed(file.cred) /\ cred = Cleaned(file.cred)
  /\ host = HostAtStart(file) /\ status = Fresh(cred)
  /\ at = [k \in Task |-> IF k \in Loop THEN LoopsOf(cred, k) ELSE "off"]
  /\ tried = [k \in Task |-> Blank]
  /\ input = NoRequest /\ content = [k \in Poster |-> Empty]
  /\ configs = 0 /\ restarts = 0
  /\ trusted = {cred} /\ stale = "no" /\ crossed = {} /\ mixed = FALSE

\* The process dies and starts again.
Restart ==
  /\ restarts < MaxRestarts /\ restarts' = restarts + 1
  /\ conf' = Trimmed(file.cred) /\ cred' = Cleaned(file.cred)
  /\ host' = HostAtStart(file) /\ status' = Fresh(cred')
  /\ at' = [k \in Task |-> IF k \in Loop THEN LoopsOf(cred', k)
                          ELSE IF at[k] = "off" THEN "off" ELSE "idle"]
  /\ tried' = [k \in Task |-> Blank]
  /\ input' = NoRequest /\ content' = [k \in Poster |-> Empty]
  /\ stale' = IF stale = "cut" THEN "cut" ELSE "no"
  /\ crossed' = {}
  /\ UNCHANGED <<file, configs, trusted, mixed>>

-----------------------------------------------------------------------------
(* DuckDNSManager.Update *)

\* What an update or a request that has ended knew is gone.
DuckGoes(k, place) ==
  /\ at' = [at EXCEPT ![k] = place]
  /\ tried' = [tried EXCEPT ![k] = IF place = "callback" THEN @ ELSE Blank]
  /\ content' = IF k \in Poster THEN [content EXCEPT ![k] = Empty] ELSE content
  /\ input' = IF k \in Poster /\ place = "idle" THEN [input EXCEPT ![k] = <<Blank, "duckdns">>]
              ELSE input

\* What the caller does next: a loop calls again when its ticker fires, the
\* handler goes on if DuckDNS accepted and answers otherwise.
Continues_Always(k, ok) == IF k \in Loop THEN "call" ELSE "domain"         \* mutant
Continues_Once(k, ok) ==                                                  \* mutant
  IF ok THEN IF k \in Loop THEN "call" ELSE "domain" ELSE "idle"
Continues(k, ok) == IF k \in Loop THEN "call" ELSE IF ok THEN "domain" ELSE "idle"

Snapshot(k) == cred
Ready(c) == Complete(c)

\* A handler begins to assign.
Others(k) == {j \in Poster \ {k} : at[j] \in Assigning}
Enters(k, before) ==
  /\ crossed' = IF Others(k) = {} THEN before ELSE before \cup Others(k) \cup {k}
  /\ mixed' = (mixed \/ k \in crossed')

CallDuck(k) ==
  /\ at[k] = "call"
  /\ IF Ready(Snapshot(k))
     THEN /\ at' = [at EXCEPT ![k] = "sent"] /\ tried' = [tried EXCEPT ![k] = Snapshot(k)]
          /\ UNCHANGED <<input, content>>
     ELSE DuckGoes(k, Continues(k, FALSE))
  /\ crossed' = IF k \in Poster /\ Snapshot(k) # Cleaned(input[k][1]) THEN crossed \cup {k}
                ELSE crossed
  /\ UNCHANGED <<cred, status, config, counters, trusted, stale, mixed>>

\* setStatus: the domain is the manager's now, the message names the one that
\* was updated.
StatusAfter(k, ok) ==
  [domain |-> cred[1], success |-> ok, about |-> IF ok THEN tried[k][1] ELSE None]

DuckAccepts(c) == c \in Good

AnswerOK(k) ==
  /\ at[k] = "sent" /\ DuckAccepts(tried[k])
  /\ status' = StatusAfter(k, TRUE)
  /\ trusted' = trusted \cup ({tried[k]} \cap Good)
  /\ DuckGoes(k, "callback")
  /\ UNCHANGED <<cred, config, counters, stale, crossed, mixed>>

\* KO, or no connection within ten seconds.
AnswerFailed(k) ==
  /\ at[k] = "sent"
  /\ status' = StatusAfter(k, FALSE)
  /\ DuckGoes(k, Continues(k, FALSE))
  /\ UNCHANGED <<cred, config, counters, duckHist>>

\* onUpdateFunc: cfg.SetPublicIP.
Callback(k) ==
  /\ at[k] = "callback"
  /\ host' = FullName[tried[k][1]]
  /\ DuckGoes(k, Continues(k, TRUE))
  /\ IF k \in Poster THEN Enters(k, crossed) ELSE UNCHANGED <<crossed, mixed>>
  /\ UNCHANGED <<cred, status, conf, file, counters, trusted, stale>>

\* The Cloud Hub answers a heartbeat: the callback of its manager.
HubCallback ==
  /\ Hub /\ host' = HubName
  /\ UNCHANGED <<cred, status, conf, file, at, tried, input, content, counters, duckHist>>

-----------------------------------------------------------------------------
(* POST /api/duckdns and POST /api/config *)

\* Handlers are named in the order of their requests.
Arrives(k) == at[k] = "off" /\ k = (CHOOSE j \in Poster : at[j] = "off")

\* SetCredentials cleans what it is given, empty strings too.  LastSuccess stays.
PostDuck(k, c) ==
  /\ Arrives(k)
  /\ input' = [input EXCEPT ![k] = <<c, "duckdns">>]
  /\ cred' = Cleaned(c) /\ status' = [status EXCEPT !.domain = Cleaned(c)[1]]
  /\ at' = [at EXCEPT ![k] = "call"]
  /\ UNCHANGED <<config, tried, content, counters, duckHist>>

PostConfig(k, c) ==
  /\ Arrives(k) /\ configs < MaxConfigs /\ configs' = configs + 1
  /\ input' = [input EXCEPT ![k] = <<c, "config">>]
  /\ at' = [at EXCEPT ![k] = IF c[1] # None THEN "domain" ELSE "token"]
  /\ Enters(k, crossed)
  /\ UNCHANGED <<cred, status, config, tried, content, restarts, trusted, stale>>

IsConfig(k) == input[k][2] = "config"

\* Cfg gets what was asked, as it is spelled by /api/duckdns; /api/config trims it,
\* asks nobody and leaves a field that is not given as it is.
Assigned(k) == IF IsConfig(k) THEN Trimmed(input[k][1]) ELSE input[k][1]
Assigns(k) ==
  /\ trusted' = IF IsConfig(k) THEN trusted \cup {Cleaned(conf')} ELSE trusted
  /\ UNCHANGED <<cred, status, host, file, counters, stale, crossed, mixed>>

SetDomain(k) ==
  /\ at[k] = "domain"
  /\ conf' = <<Assigned(k)[1], conf[2]>>
  /\ DuckGoes(k, IF IsConfig(k) THEN "host" ELSE "token")
  /\ Assigns(k)

SetToken(k) ==
  /\ at[k] = "token"
  /\ conf' = <<conf[1], IF IsConfig(k) /\ input[k][1][2] = None THEN conf[2]
                        ELSE Assigned(k)[2]>>
  /\ DuckGoes(k, IF IsConfig(k) THEN "save" ELSE "host")
  /\ Assigns(k)

\* /api/config formats the domain it reads back.
SetPublicIP(k) ==
  /\ at[k] = "host"
  /\ host' = FullName[IF IsConfig(k) THEN conf[1] ELSE input[k][1][1]]
  /\ DuckGoes(k, IF IsConfig(k) THEN "token" ELSE "save")
  /\ UNCHANGED <<cred, status, conf, file, counters, duckHist>>

\* SaveConfigToEnv formats, then os.WriteFile empties the file and fills it.  Its
\* error is not looked at: the file may not open, or, emptied, not be written.
AfterSave(k) == IF IsConfig(k) THEN "idle" ELSE "written"
Formatted(k) == [host |-> host, cred |-> conf]
SaveFormats(k) ==
  /\ at[k] = "save"
  /\ content' = [content EXCEPT ![k] = Formatted(k)]
  /\ file' = Empty /\ stale' = "cut"
  /\ at' = [at EXCEPT ![k] = "writing"]
  /\ UNCHANGED <<cred, status, conf, host, tried, input, counters, trusted, crossed, mixed>>

SaveWrites(k) ==
  /\ at[k] = "writing"
  /\ file' = content[k] /\ stale' = "no"
  /\ mixed' = (mixed /\ (IsConfig(k) \/ k \in crossed))
  /\ DuckGoes(k, AfterSave(k))
  /\ UNCHANGED <<cred, status, conf, host, counters, trusted, crossed>>

SaveFails(k) ==
  /\ \/ at[k] = "save" /\ stale' = IF stale = "cut" THEN "cut" ELSE "old"
     \/ at[k] = "writing" /\ UNCHANGED stale
  /\ DuckGoes(k, AfterSave(k))
  /\ UNCHANGED <<cred, status, config, counters, trusted, crossed, mixed>>

\* StartBackgroundSync: one more loop, if there are credentials now.  The
\* handler answers.
NewLoop == CHOOSE l \in Loop : at[l] = "off"
StartBackgroundSync(k) ==
  /\ at[k] = "written"
  /\ at' = IF Complete(cred) /\ (\E l \in Loop : at[l] = "off")
           THEN [at EXCEPT ![NewLoop] = "call", ![k] = "idle"]
           ELSE [at EXCEPT ![k] = "idle"]
  /\ input' = [input EXCEPT ![k] = <<Blank, "duckdns">>]
  /\ UNCHANGED <<cred, status, config, tried, content, counters, duckHist>>

-----------------------------------------------------------------------------
Update(k) == CallDuck(k) \/ AnswerOK(k) \/ AnswerFailed(k) \/ Callback(k)
DuckHandler(k) ==
  \/ SetDomain(k) \/ SetToken(k) \/ SetPublicIP(k)
  \/ SaveFormats(k) \/ SaveWrites(k) \/ SaveFails(k) \/ StartBackgroundSync(k)
Post(k) ==
  \/ \E c \in Asked : PostDuck(k, c) \/ PostConfig(k, c)

DuckNext ==
  \/ Restart \/ HubCallback
  \/ \E k \in Task : Update(k)
  \/ \E k \in Poster : Post(k) \/ DuckHandler(k)

DuckSpec == DuckInit /\ [][DuckNext]_duckVars

\* A goroutine runs on, an update ends within its timeout, a ticker ticks; and
\* DuckDNS can be reached again and again by a loop that keeps trying.
DuckFairSpec ==
  /\ DuckSpec
  /\ \A k \in Task : WF_duckVars(Update(k))
  /\ \A k \in Poster : WF_duckVars(DuckHandler(k))
  /\ \A l \in Loop : SF_duckVars(AnswerOK(l))

-----------------------------------------------------------------------------
(* Properties *)

Syncing == \E l \in Loop : at[l] # "off"
Quiet == \A k \in Poster : at[k] \in {"off", "idle"}

Settled == \A k \in Poster : at[k] \notin Assigning

\* The server is called by its address, by what the Cloud Hub says, or by a
\* spelling of a domain that is trusted.
Belongs(h) ==
  \/ h = WanAddress \/ (Hub /\ h = HubName)
  \/ \E c \in trusted : h = FullName[c[1]] \/ (\E d \in Domain : Clean[d] = c[1] /\ h = FullName[d])

\* "SaveConfigToEnv persists current configuration": the file says what is
\* configured when every request has been answered, if it could be written.
SavedConf == Quiet /\ stale = "no" => Trimmed(file.cred) = Trimmed(conf)

\* "Probar y Activar": when every request has been answered, what is configured
\* is what DuckDNS has accepted, unless it was set untested; nothing at all is
\* configured only if a save was cut off.
ConfAccepted == Quiet => Cleaned(conf) \in trusted \/ (stale = "cut" /\ conf = Blank)

\* Whenever no handler is assigning or saving, what is configured and what the
\* server is called by are trusted, and are what the file says, through restarts
\* at any step, saves that fail, updates under way and requests of several
\* handlers.  Only a handler whose update tested the credentials another one had
\* stored meanwhile, or that assigned and saved while another did, can leave it
\* otherwise, until the next /api/duckdns that is not crossed has saved.
OnlyAccepted ==
  /\ DuckTypeOK
  /\ Settled /\ ~mixed =>
       /\ stale = "no" => Trimmed(file.cred) = Trimmed(conf)
       /\ Cleaned(conf) \in trusted \/ (stale = "cut" /\ conf = Blank)
       /\ Belongs(host)

\* "Dominio DuckDNS activado con exito": when every request is answered the
\* server calls itself by the domain that is configured.
HostFollows == Quiet /\ Complete(conf) => host = FullName[conf[1]]

\* Whatever the order in which updates under way come back, the server in the
\* end calls itself by the domain it keeps updating, but for the Cloud Hub that
\* names it in between, and shows no success for a domain that was not updated.
Converges ==
  <>[](Syncing =>
         /\ cred \in Good => host = FullName[cred[1]] \/ (Hub /\ host = HubName)
         /\ Complete(cred) /\ status.success => status.about = status.domain)

\* The same of the name alone: "actualizar la URL publica".
HostSettles == <>[](Syncing /\ cred \in Good => host = FullName[cred[1]])
=============================================================================
