----------------------------- MODULE MCServices -----------------------------
(***************************************************************************)
(* What runs beside the rounds: the market indexer, the paced client it    *)
(* reads through, the tape its market is recorded on, the server process   *)
(* with its alerts, the sign-in rate limit, the migration jobs, the two    *)
(* sets of repositories, and the pure algorithms of MCAlgorithms.  They    *)
(* share no state, so each is explored by itself, as one part.             *)
(***************************************************************************)
EXTENDS MCAlgorithms, Pacer, MarketTape, Server, RateLimit, Migrations, Stores

VARIABLE part

allVars == <<vars, marketVars, pacerVars, tapeVars, serverVars, rateVars, migrateVars, storeVars, part>>

MCLogs ==
  LET Log(k, p, e, q, n, r) ==
        [kind |-> k, place |-> p, emitter |-> e, quote |-> q, token |-> n, routed |-> r]
  IN {Log("INITIALIZE", "p", "poolManager", 0, 0, FALSE),
      Log("REGISTER", "q", "ponsMemeHook", 0, 0, FALSE),
      Log("LAUNCH", "c", "ponsFactory", 0, 0, FALSE),
      Log("SWAP", "p", "poolManager", 2, 1, FALSE),
      Log("SWAP", "p", "poolManager", 2, 0, FALSE),
      Log("SWAP", "p", "fake", 2, 1, FALSE),
      Log("SWAP", "q", "poolManager", 2, 1, FALSE),
      Log("CURVE_TRADE", "c", "curve", 2, 1, TRUE),
      Log("CURVE_TRADE", "fake", "fake", 2, 1, FALSE),
      Log("CURVE_TRADE", "fake", Undecodable, 2, 1, FALSE)}

\* Three releases of the schema; the last one edited a file it had shipped.
MCImages ==
  LET F(n, c) == [name |-> n, sum |-> c]
  IN {<<F(1, "a")>>, <<F(1, "a"), F(2, "b")>>, <<F(1, "a"), F(2, "edited"), F(3, "c")>>}

\* One wallet with a charge left and one with none.
MCHolders == "w1" :> 1 @@ "w2" :> 0

MCSkew == [i \in Instances |-> 0]

MCInit ==
  /\ Init /\ MarketInit /\ PacerInit /\ TapeInit /\ ServerInit /\ RateInit /\ MigrateInit /\ StoresInit
  /\ part \in {"algorithms", "market", "pacer", "tape", "server", "limit", "migrations", "stores"}
  \* A part that is not explored starts in one of its initial states.
  /\ part # "market" => chain[1].log = Nothing
  /\ part # "pacer" => tail = SetToSeq(Calls)
  /\ part # "server" => proc.kind = "server"
  /\ part # "stores" => kind = "picks"
  /\ part # "migrations" => \A j \in Jobs : Len(job[j].image) = 1

Only(name) ==
  /\ part = name /\ part' = part
  /\ name # "algorithms" => UNCHANGED vars
  /\ name # "market" => UNCHANGED marketVars
  /\ name # "pacer" => UNCHANGED pacerVars
  /\ name # "tape" => UNCHANGED tapeVars
  /\ name # "server" => UNCHANGED serverVars
  /\ name # "limit" => UNCHANGED rateVars
  /\ name # "migrations" => UNCHANGED migrateVars
  /\ name # "stores" => UNCHANGED storeVars

MCNext ==
  \/ Only("algorithms") /\ Next
  \/ Only("market") /\ MarketNext
  \/ Only("pacer") /\ PacerNext
  \/ Only("tape") /\ TapeNext
  \/ Only("server") /\ ServerNext
  \/ Only("limit") /\ RateNext
  \/ Only("migrations") /\ MigrateNext
  \/ Only("stores") /\ StoresNext

MCSpec == MCInit /\ [][MCNext]_allVars

=============================================================================
