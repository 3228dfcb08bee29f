----------------------------- MODULE Deployment -----------------------------
(***************************************************************************)
(* Start-up, exit and restart of the two binaries and of the containers    *)
(* they need.                                                              *)
(*                                                                         *)
(* The server (crates/server/src/main.rs) reads its configuration, opens   *)
(* the pool and runs the migrations, pings Redis (a panic when it cannot), *)
(* spawns the gRPC server and only then binds the metrics listener.  The   *)
(* gateway (crates/client/src/main.rs) dials the gRPC server once, exits   *)
(* when it cannot, then binds its port.  Neither waits for what it needs:  *)
(* docker-compose.yml restarts whatever exits ("restart: unless-stopped"), *)
(* and that restart is the only retry there is.                            *)
(*                                                                         *)
(* main joins the two tasks with try_join! on their JoinHandles: a gRPC    *)
(* server that returns an error is an Ok for the join, which goes on       *)
(* waiting for the metrics server.  The process then lives on and serves   *)
(* metrics only (HalfDead).                                                *)
(***************************************************************************)
EXTENDS Naturals

CONSTANTS
    Migrations,      \* how many files migrations/ holds
    RunMigrations,   \* RUN_MIGRATIONS of the .env both containers read
    MaxFaults        \* bound: crashes, outages and failed binds of a run

ASSUME DeploymentAssumption ==
    /\ Migrations \in Nat
    /\ RunMigrations \in BOOLEAN
    /\ MaxFaults \in Nat

VARIABLES
    dbUp,        \* whether Postgres accepts connections
    redisUp,     \* whether Redis does
    applied,     \* how many migrations the database volume has recorded
    server,      \* where main of the server is
    grpc,        \* the spawned gRPC task
    gateway,     \* where main of the gateway is
    channel,     \* the transport below the gateway's gRPC clients
    req,         \* one request at the gateway
    faults       \* faults so far

stores == <<dbUp, redisUp, applied>>
vars == <<dbUp, redisUp, applied, server, grpc, gateway, channel, req, faults>>

(***************************************************************************)
(* The points of a main where it can wait, fail or be seen from outside.   *)
(***************************************************************************)
ServerPoint == {"down", "connect", "migrate", "ping", "spawn", "bind", "running"}
GrpcPoint == {"none", "starting", "serving", "failed"}
GatewayPoint == {"down", "dial", "bind", "serving"}
ChannelState == {"none", "open", "broken"}
ReqState == {"none", "waiting", "sent", "ok", "failed"}

TypeOK ==
    /\ dbUp \in BOOLEAN /\ redisUp \in BOOLEAN
    /\ applied \in 0 .. Migrations
    /\ server \in ServerPoint
    /\ grpc \in GrpcPoint
    /\ gateway \in GatewayPoint
    /\ channel \in ChannelState
    /\ req \in ReqState
    /\ faults \in 0 .. MaxFaults

(***************************************************************************)
(* compose starts the server's container before the gateway's              *)
(* (depends_on), without waiting for either store.  The volume may be new  *)
(* or come from an older deployment.                                       *)
(***************************************************************************)
Init ==
    /\ dbUp = FALSE /\ redisUp = FALSE
    /\ applied \in 0 .. Migrations
    /\ server = "connect" /\ grpc = "none"
    /\ gateway = "down" /\ channel = "none"
    /\ req = "none" /\ faults = 0

Fault == faults < MaxFaults /\ faults' = faults + 1

-----------------------------------------------------------------------------
(* The stores' containers *)

StoreStarts ==
    /\ \/ ~dbUp /\ dbUp' = TRUE /\ UNCHANGED redisUp
       \/ ~redisUp /\ redisUp' = TRUE /\ UNCHANGED dbUp
    /\ UNCHANGED <<applied, server, grpc, gateway, channel, req, faults>>

StoreStops ==
    /\ Fault
    /\ \/ dbUp /\ dbUp' = FALSE /\ UNCHANGED redisUp
       \/ redisUp /\ redisUp' = FALSE /\ UNCHANGED dbUp
    /\ UNCHANGED <<applied, server, grpc, gateway, channel, req>>

-----------------------------------------------------------------------------
(* The server *)

(***************************************************************************)
(* main returns or panics: the runtime goes, the gRPC task with it, every  *)
(* connection breaks and a call that was sent gets a transport error.      *)
(***************************************************************************)
ServerExits ==
    /\ server' = "down"
    /\ grpc' = "none"
    /\ channel' = IF channel = "open" THEN "broken" ELSE channel
    /\ req' = IF req = "sent" THEN "failed" ELSE req

ServerLaunch ==
    /\ server = "down"
    /\ server' = "connect"
    /\ UNCHANGED <<stores, grpc, gateway, channel, req, faults>>

AfterPoolIfEmpty ==  \* broken: a volume that has a table has them all
    IF RunMigrations /\ applied = 0 THEN "migrate" ELSE "ping"
AfterPool == IF RunMigrations THEN "migrate" ELSE "ping"

ConnectPool ==
    /\ server = "connect"
    /\ \/ dbUp /\ server' = AfterPool /\ UNCHANGED <<grpc, channel, req>>
       \/ ~dbUp /\ ServerExits
    /\ UNCHANGED <<stores, gateway, faults>>

(***************************************************************************)
(* Each file is applied and recorded in one transaction; a restart goes on *)
(* with the first one that is not recorded.                                *)
(***************************************************************************)
MigratedPastEnd == applied > Migrations  \* broken: one too many
Migrated == applied = Migrations

Migrate ==
    /\ server = "migrate"
    /\ \/ /\ dbUp /\ Migrated
          /\ server' = "ping"
          /\ UNCHANGED <<applied, grpc, channel, req>>
       \/ /\ dbUp /\ ~Migrated
          /\ applied' = applied + 1
          /\ UNCHANGED <<server, grpc, channel, req>>
       \/ ~dbUp /\ ServerExits /\ UNCHANGED applied
    /\ UNCHANGED <<dbUp, redisUp, gateway, faults>>

PingRedisInTask ==  \* broken: in a task of its own, all that its panic ends
    /\ server = "ping"
    /\ server' = IF redisUp THEN "spawn" ELSE "running"
    /\ UNCHANGED <<stores, grpc, gateway, channel, req, faults>>
PingRedis ==
    /\ server = "ping"
    /\ \/ redisUp /\ server' = "spawn" /\ UNCHANGED <<grpc, channel, req>>
       \/ ~redisUp /\ ServerExits
    /\ UNCHANGED <<stores, gateway, faults>>

SpawnGrpc ==
    /\ server = "spawn"
    /\ server' = "bind"
    /\ grpc' = "starting"
    /\ UNCHANGED <<stores, gateway, channel, req, faults>>

(* The gRPC task binds 50051 on its own: nobody looks at its result. *)
GrpcServe ==
    /\ grpc = "starting"
    /\ \/ grpc' = "serving" /\ UNCHANGED faults
       \/ grpc' = "failed" /\ Fault
    /\ UNCHANGED <<stores, server, gateway, channel, req>>

BindMetrics ==
    /\ server = "bind"
    /\ \/ server' = "running" /\ UNCHANGED <<grpc, channel, req, faults>>
       \/ ServerExits /\ Fault
    /\ UNCHANGED <<stores, gateway>>

ServerCrash ==
    /\ server # "down"
    /\ ServerExits
    /\ Fault
    /\ UNCHANGED <<stores, gateway>>

-----------------------------------------------------------------------------
(* The gateway *)

GatewayExits ==
    /\ gateway' = "down"
    /\ channel' = "none"
    /\ req' = "none"

GatewayLaunch ==
    /\ gateway = "down"
    /\ gateway' = "dial"
    /\ UNCHANGED <<stores, server, grpc, channel, req, faults>>

Dial ==
    /\ gateway = "dial"
    /\ \/ /\ grpc = "serving"
          /\ gateway' = "bind" /\ channel' = "open"
          /\ UNCHANGED req
       \/ grpc # "serving" /\ GatewayExits
    /\ UNCHANGED <<stores, server, grpc, faults>>

BindPort ==
    /\ gateway = "bind"
    /\ \/ gateway' = "serving" /\ UNCHANGED <<channel, req, faults>>
       \/ GatewayExits /\ Fault
    /\ UNCHANGED <<stores, server, grpc>>

GatewayCrash ==
    /\ gateway # "down"
    /\ GatewayExits
    /\ Fault
    /\ UNCHANGED <<stores, server, grpc>>

-----------------------------------------------------------------------------
(* A request through both *)

Arrive ==
    /\ gateway = "serving" /\ req = "none"
    /\ req' = "waiting"
    /\ UNCHANGED <<stores, server, grpc, gateway, channel, faults>>

(***************************************************************************)
(* A call on a broken channel dials again, so a gateway outlives a restart *)
(* of the server; while nobody listens the call fails as Unavailable.      *)
(***************************************************************************)
ReachableOnce == grpc = "serving" /\ channel = "open"  \* broken: no new dial
Reachable == grpc = "serving"

Call ==
    /\ req = "waiting"
    /\ \/ Reachable /\ req' = "sent" /\ channel' = "open"
       \/ ~Reachable /\ req' = "failed" /\ channel' = "broken"
    /\ UNCHANGED <<stores, server, grpc, gateway, faults>>

(***************************************************************************)
(* The server answers from the pool.  Redis is not asked for: a lookup     *)
(* that fails is a miss and a write that fails is logged.                  *)
(***************************************************************************)
Serve ==
    /\ req = "sent"
    /\ req' = IF dbUp /\ Migrated THEN "ok" ELSE "failed"
    /\ UNCHANGED <<stores, server, grpc, gateway, channel, faults>>

Reply ==
    /\ req \in {"ok", "failed"}
    /\ req' = "none"
    /\ UNCHANGED <<stores, server, grpc, gateway, channel, faults>>

-----------------------------------------------------------------------------
ServerMain == ConnectPool \/ Migrate \/ PingRedis \/ SpawnGrpc \/ BindMetrics
GatewayMain == Dial \/ BindPort
Handle == Call \/ Serve \/ Reply

Next ==
    \/ StoreStarts \/ StoreStops
    \/ ServerLaunch \/ ServerMain \/ GrpcServe \/ ServerCrash
    \/ GatewayLaunch \/ GatewayMain \/ GatewayCrash
    \/ Arrive \/ Handle

Spec == Init /\ [][Next]_vars

(***************************************************************************)
(* Docker restarts what has exited, the runtimes run their tasks and a     *)
(* call that was sent is answered.  Browsers need not come and faults need *)
(* not happen.                                                             *)
(***************************************************************************)
Fairness ==
    /\ WF_vars(StoreStarts)
    /\ WF_vars(ServerLaunch) /\ WF_vars(ServerMain) /\ WF_vars(GrpcServe)
    /\ WF_vars(GatewayLaunch) /\ WF_vars(GatewayMain)
    /\ WF_vars(Handle)

FairSpec == Spec /\ Fairness

-----------------------------------------------------------------------------
(***************************************************************************)
(* With RUN_MIGRATIONS, whoever can reach a gRPC server, or a gateway that *)
(* has ever dialled one, finds every table: main migrates before it        *)
(* spawns, over crashes between two migrations and restarts.               *)
(***************************************************************************)
SchemaBeforeService ==
    RunMigrations /\ (grpc = "serving" \/ gateway \in {"bind", "serving"})
        => Migrated

(* The server's process runs, its metrics are served and its gRPC is not. *)
HalfDead == server = "running" /\ grpc = "failed"

Served == dbUp /\ redisUp /\ grpc = "serving" /\ gateway = "serving"

(***************************************************************************)
(* Whatever order the four containers come up in, and after any number of  *)
(* crashes and outages, restarts alone bring the system up to stay, unless *)
(* the gRPC task failed in a process that lives on: nothing restarts that. *)
(***************************************************************************)
ComesUp == <>[]Served \/ <>[]HalfDead

(***************************************************************************)
(* Once the faults have stopped, requests stop failing as well: the        *)
(* gateway that saw its server go needs no restart of its own.             *)
(***************************************************************************)
FailuresEnd == <>[](req # "failed") \/ <>[]HalfDead

=============================================================================
