------------------------------ MODULE Scraper ------------------------------
(***************************************************************************)
(* A scraping receiver (scraper/scraperhelper): a controller that starts   *)
(* and stops a list of scrapers, and a goroutine that calls all of them at *)
(* every tick and passes what they found on to the pipelines.              *)
(***************************************************************************)
EXTENDS Integers

CONSTANTS
  NumScrapers,
  InitialDelay    \* TRUE if initial_delay is configured

ASSUME ScraperConstants == NumScrapers \in Nat /\ InitialDelay \in BOOLEAN

VARIABLES
  cpc,        \* the receiver's Start and Shutdown
  scrapers,   \* the scrapers, in the order of the list
  spc,        \* the scraping goroutine
  at,         \* the scraper it calls next
  done,       \* sc.done is closed
  tick        \* sc.tickerCh holds a tick

scraperVars == <<cpc, scrapers, spc, at, done, tick>>

ScraperInit ==
  /\ cpc = "new"
  /\ scrapers = [i \in 1 .. NumScrapers |-> "new"]
  /\ spc = "none"
  /\ at = 1
  /\ done = FALSE
  /\ tick = FALSE

(***************************************************************************)
(* Start: every scraper in turn, then the goroutine.                       *)
(***************************************************************************)
StartScraper ==
  /\ cpc \in {"new", "starting"}
  /\ \E i \in 1 .. NumScrapers :
       /\ scrapers[i] = "new"
       /\ \A j \in 1 .. (i - 1) : scrapers[j] = "started"
       /\ \/ cpc' = "starting" /\ scrapers' = [scrapers EXCEPT ![i] = "started"]
          \/ cpc' = "failed" /\ UNCHANGED scrapers
  /\ UNCHANGED <<spc, at, done, tick>>

StartScraping ==
  /\ cpc \in {"new", "starting"}
  /\ \A i \in 1 .. NumScrapers : scrapers[i] = "started"
  /\ cpc' = "running"
  /\ spc' = IF InitialDelay THEN "delay" ELSE "scraping"
  /\ UNCHANGED <<scrapers, at, done, tick>>

(***************************************************************************)
(* The goroutine.                                                          *)
(***************************************************************************)
DelayOver ==
  /\ spc = "delay"
  /\ spc' \in {"scraping"} \union (IF done THEN {"exited"} ELSE {})
  /\ UNCHANGED <<cpc, scrapers, at, done, tick>>

\* The next scraper is called; what it returns is merged or, after an error, not.
Scrape ==
  /\ spc = "scraping" /\ at <= NumScrapers
  /\ at' = at + 1
  /\ UNCHANGED <<cpc, scrapers, spc, done, tick>>

\* nextConsumer is called with what was found, and returns.
ConsumeScraped ==
  /\ spc = "scraping" /\ at > NumScrapers
  /\ spc' = "consuming"
  /\ UNCHANGED <<cpc, scrapers, at, done, tick>>

ConsumedAwaitTick ==
  /\ spc = "consuming"
  /\ at' = 1
  /\ spc' = "select"
  /\ UNCHANGED <<cpc, scrapers, done, tick>>

Consumed ==
  /\ spc = "consuming"
  /\ at' = 1
  /\ spc' = IF done THEN "exited" ELSE "select"
  /\ UNCHANGED <<cpc, scrapers, done, tick>>

\* The select: a tick or the end, either if both are there.
Await ==
  /\ spc = "select"
  /\ \/ tick /\ tick' = FALSE /\ spc' = "scraping"
     \/ done /\ spc' = "exited" /\ UNCHANGED tick
  /\ UNCHANGED <<cpc, scrapers, at, done>>

Tick ==
  /\ spc \in {"scraping", "consuming", "select"} /\ ~tick
  /\ tick' = TRUE
  /\ UNCHANGED <<cpc, scrapers, spc, at, done>>

(***************************************************************************)
(* Shutdown.                                                               *)
(***************************************************************************)
StopScraping ==
  /\ cpc \in {"new", "running", "failed"}
  /\ cpc' = "waiting"
  /\ done' = TRUE
  /\ UNCHANGED <<scrapers, spc, at, tick>>

\* The wait group, then every scraper, whether it was started or not.
StopScrapers ==
  /\ cpc = "waiting"
  /\ spc \in {"none", "exited"}
  /\ cpc' = "stopped"
  /\ scrapers' = [i \in 1 .. NumScrapers |-> "stopped"]
  /\ UNCHANGED <<spc, at, done, tick>>

===========================================================================
