---------------------------- MODULE OfflineShell ----------------------------
(* The app's own files on a phone (client/public/sw.js): the page that      *)
(* opens without a connection and the built files it loads. A new release   *)
(* is gathered file by file, over a connection that may fail and from a     *)
(* server that may be serving another release by then, while the pages that *)
(* are open download what they need.                                        *)
EXTENDS Integers, Sequences, FiniteSets

CONSTANTS Releases,    \* releases of the client
          Files,       \* built files, by hashed name
          Named,       \* by release: the files its page names
          Inner,       \* by release: what looks like a file name inside those
          Built,       \* by release: the files the server has
          Nothing,     \* an absent value
          MaxDeploys,  \* bound: deployments
          MaxLoads     \* bound: pages fetched

ASSUME FilesAssumption == /\ Named \in [Releases -> SUBSET Files]
                          /\ Inner \in [Releases -> SUBSET Files]
                          /\ Built \in [Releases -> SUBSET Files]
                          /\ \A r \in Releases : Named[r] \subseteq Built[r]
ASSUME NothingAssumption == Nothing \notin Releases
ASSUME ShellBoundsAssumption == MaxDeploys \in Nat /\ MaxLoads \in Nat

VARIABLES live,       \* the release the server serves
          deploys,    \* deployments so far
          loads,      \* pages fetched so far
          open,       \* releases whose pages are open
          shell,      \* the cache: the page, the files beside it
          adopting,   \* pages waiting to be adopted
          adoption    \* the page being adopted
shellVars == <<live, deploys, loads, open, shell, adopting, adoption>>

Shell == [page : Releases \cup {Nothing}, files : SUBSET Files,
          torn : BOOLEAN]   \* history: a file of the page was given up as no file

Adoption == [page : Releases, needed : SUBSET Files, torn : BOOLEAN,
             doomed : SUBSET Files, step : {"gathering", "listing", "pruning"}]

ShellInit == /\ live \in Releases
             /\ deploys = 0 /\ loads = 0 /\ open = {}
             /\ shell = [page |-> Nothing, files |-> {}, torn |-> FALSE]
             /\ adopting = <<>>
             /\ adoption = Nothing

----------------------------------------------------------------------------
(* The server is given another release, newer or rolled back. Files it does *)
(* not have are answered with the app's page (app.ts), which is no asset.   *)
deploy == /\ deploys < MaxDeploys
          /\ deploys' = deploys + 1
          /\ live' \in Releases \ {live}
          /\ UNCHANGED <<loads, open, shell, adopting, adoption>>

(* A page load, or the worker's installation: the page is fetched and       *)
(* queued for adoption.                                                     *)
navigate == /\ loads < MaxLoads
            /\ loads' = loads + 1
            /\ open' \in {open, open \cup {live}}
            /\ adopting' = Append(adopting, live)
            /\ UNCHANGED <<live, deploys, shell, adoption>>

(* Without a connection the stored page opens.                              *)
navigateOffline == /\ shell.page \notin open \cup {Nothing}
                   /\ open' = open \cup {shell.page}
                   /\ UNCHANGED <<live, deploys, loads, shell, adopting, adoption>>

(* download, for an open page: kept when it is an asset.                    *)
requestAsset == \E r \in open, f \in Built[live] \ shell.files :
                   /\ f \in Named[r] \cup Inner[r]
                   /\ shell' = [shell EXCEPT !.files = @ \cup {f}]
                   /\ UNCHANGED <<live, deploys, loads, open, adopting, adoption>>

(* adopt runs one page at a time. The mutant stores the page as it arrives. *)
toAdopt(page) == [page |-> page, needed |-> {}, torn |-> FALSE, doomed |-> {},
                  step |-> "gathering"]
takeAtOnce == /\ adoption = Nothing /\ adopting # <<>>
              /\ adoption' = toAdopt(Head(adopting))
              /\ adopting' = Tail(adopting)
              /\ shell' = [shell EXCEPT !.page = Head(adopting), !.torn = FALSE]
              /\ UNCHANGED <<live, deploys, loads, open>>
adopt == /\ adoption = Nothing /\ adopting # <<>>
         /\ adoption' = toAdopt(Head(adopting))
         /\ adopting' = Tail(adopting)
         /\ UNCHANGED <<live, deploys, loads, open, shell>>

----------------------------------------------------------------------------
(* gather: the files the page names, then what those name.                  *)
required == Named[adoption.page] \ adoption.needed
found == Inner[adoption.page] \ adoption.needed
queue == IF required # {} THEN required ELSE found
gathering == adoption # Nothing /\ adoption.step = "gathering"

(* stored: a file in the cache, or downloaded into it.                      *)
stored(f) == /\ gathering /\ f \in queue
             /\ f \in shell.files \cup Built[live]
             /\ shell' = [shell EXCEPT !.files = @ \cup {f}]
             /\ adoption' = [adoption EXCEPT !.needed = @ \cup {f}]
             /\ UNCHANGED <<live, deploys, loads, open, adopting>>

(* A reference inside a file that the server does not know is taken for     *)
(* text, even if it was a file when the page was fetched.                   *)
notAFile(f) == /\ gathering /\ f \in queue \ (shell.files \cup Built[live])
               /\ f \notin Named[adoption.page]
               /\ adoption' = [adoption EXCEPT !.needed = @ \cup {f},
                                               !.torn = @ \/ f \in Built[adoption.page]]
               /\ UNCHANGED <<live, deploys, loads, open, shell, adopting>>

(* No connection, a server error, or a file the page names that is gone:    *)
(* the release is not taken.                                                *)
giveUp == /\ gathering /\ queue \ shell.files # {}
          /\ adoption' = Nothing
          /\ UNCHANGED <<live, deploys, loads, open, shell, adopting>>

storePage == /\ gathering /\ queue = {}
             /\ shell' = [shell EXCEPT !.page = adoption.page, !.torn = adoption.torn]
             /\ adoption' = [adoption EXCEPT !.step = "listing"]
             /\ UNCHANGED <<live, deploys, loads, open, adopting>>

(* The files of other releases go one by one.                               *)
list == /\ adoption # Nothing /\ adoption.step = "listing"
        /\ adoption' = [adoption EXCEPT !.step = "pruning",
                                        !.doomed = shell.files \ adoption.needed]
        /\ UNCHANGED <<live, deploys, loads, open, shell, adopting>>
prune == /\ adoption # Nothing /\ adoption.step = "pruning"
         /\ \/ \E f \in adoption.doomed :
                  /\ shell' = [shell EXCEPT !.files = @ \ {f}]
                  /\ adoption' = [adoption EXCEPT !.doomed = @ \ {f}]
            \/ adoption.doomed = {} /\ adoption' = Nothing /\ shell' = shell
         /\ UNCHANGED <<live, deploys, loads, open, adopting>>

(* The phone stops the worker, or every page is closed.                     *)
stop == /\ adoption # Nothing \/ adopting # <<>> \/ open # {}
        /\ adoption' = Nothing /\ adopting' = <<>>
        /\ open' \in {open, {}}
        /\ UNCHANGED <<live, deploys, loads, shell>>

ShellNext == \/ deploy \/ navigate \/ navigateOffline \/ requestAsset \/ adopt
             \/ (\E f \in Files : stored(f) \/ notAFile(f))
             \/ giveUp \/ storePage \/ list \/ prune \/ stop

ShellSpec == ShellInit /\ [][ShellNext]_shellVars

----------------------------------------------------------------------------
ShellTypeOK == /\ live \in Releases
               /\ deploys \in 0..MaxDeploys /\ loads \in 0..MaxLoads
               /\ open \subseteq Releases
               /\ shell \in Shell
               /\ adopting \in Seq(Releases)
               /\ adoption \in Adoption \cup {Nothing}

(* "A release is kept whole, or not taken at all": the page that opens      *)
(* offline has every file it can load beside it, whatever failed, stopped   *)
(* or was deployed while it was taken - but for a page whose screens were   *)
(* still being gathered when the server moved on to another release: their  *)
(* files are then taken for text, and the page is stored without them.      *)
ReleaseIsWhole ==
    shell.page # Nothing /\ ~shell.torn
        => (Named[shell.page] \cup Inner[shell.page]) \cap Built[shell.page] \subseteq shell.files
=============================================================================
