-------------------------- MODULE DeploymentProofs --------------------------
(***************************************************************************)
(* Nobody is served before the migrations have run, for any number of      *)
(* migrations, crashes, outages and restarts.                              *)
(***************************************************************************)
EXTENDS Deployment, TLAPS

(***************************************************************************)
(* main has passed its migrations from the ping on; the gRPC task exists   *)
(* only in a main that has spawned it.  What the volume has recorded       *)
(* survives every crash, so the gateway needs to look only once.           *)
(***************************************************************************)
PastMigrations == server \in {"ping", "spawn", "bind", "running"} => Migrated
GrpcInMain == grpc # "none" => server \in {"bind", "running"}
GatewayDialled == gateway \in {"bind", "serving"} => Migrated

SchemaInv ==
    /\ TypeOK
    /\ RunMigrations => PastMigrations /\ GatewayDialled
    /\ GrpcInMain

LEMMA SchemaInit == Init => SchemaInv
<1> SUFFICES ASSUME Init PROVE SchemaInv
  OBVIOUS
<1>1. dbUp \in BOOLEAN /\ redisUp \in BOOLEAN
  BY DEF Init
<1>2. applied \in 0 .. Migrations /\ faults \in 0 .. MaxFaults
  BY DeploymentAssumption DEF Init
<1>3. /\ server \in ServerPoint /\ grpc \in GrpcPoint
      /\ gateway \in GatewayPoint /\ channel \in ChannelState
      /\ req \in ReqState
  BY DEF Init, ServerPoint, GrpcPoint, GatewayPoint, ChannelState, ReqState
<1>4. PastMigrations /\ GatewayDialled /\ GrpcInMain
  BY DEF Init, PastMigrations, GatewayDialled, GrpcInMain
<1> QED
  BY <1>1, <1>2, <1>3, <1>4 DEF SchemaInv, TypeOK

(***************************************************************************)
(* The steps of the server's main, its task and its crash.                 *)
(***************************************************************************)
LEMMA ServerKeepsSchema ==
  ASSUME SchemaInv,
         ServerLaunch \/ ServerMain \/ GrpcServe \/ ServerCrash
  PROVE  SchemaInv'
<1> USE DeploymentAssumption DEF SchemaInv, TypeOK, PastMigrations, Migrated,
        GrpcInMain, GatewayDialled, ServerPoint, GrpcPoint, GatewayPoint,
        ChannelState, ReqState, stores
<1>1. CASE ServerLaunch
  BY <1>1 DEF ServerLaunch
<1>2. CASE ConnectPool
  <2>1. CASE dbUp
    BY <1>2, <2>1 DEF ConnectPool, AfterPool
  <2>2. CASE ~dbUp
    BY <1>2, <2>2 DEF ConnectPool, ServerExits
  <2> QED
    BY <2>1, <2>2
<1>3. CASE Migrate
  <2>1. CASE dbUp /\ Migrated
    BY <1>3, <2>1 DEF Migrate
  <2>2. CASE dbUp /\ ~Migrated
    BY <1>3, <2>2 DEF Migrate
  <2>3. CASE ~dbUp
    BY <1>3, <2>3 DEF Migrate, ServerExits
  <2> QED
    BY <1>3, <2>1, <2>2, <2>3 DEF Migrate
<1>4. CASE PingRedis
  BY <1>4 DEF PingRedis, ServerExits
<1>5. CASE SpawnGrpc
  BY <1>5 DEF SpawnGrpc
<1>6. CASE GrpcServe
  BY <1>6 DEF GrpcServe, Fault
<1>7. CASE BindMetrics
  BY <1>7 DEF BindMetrics, ServerExits, Fault
<1>8. CASE ServerCrash
  BY <1>8 DEF ServerCrash, ServerExits, Fault
<1> QED
  BY <1>1, <1>2, <1>3, <1>4, <1>5, <1>6, <1>7, <1>8 DEF ServerMain

(***************************************************************************)
(* The gateway's steps: a dial that succeeds reads the task of a main that *)
(* is past its migrations.                                                 *)
(***************************************************************************)
LEMMA GatewayKeepsSchema ==
  ASSUME SchemaInv,
         GatewayLaunch \/ GatewayMain \/ GatewayCrash
  PROVE  SchemaInv'
<1> USE DeploymentAssumption DEF SchemaInv, TypeOK, PastMigrations, Migrated,
        GrpcInMain, GatewayDialled, ServerPoint, GrpcPoint, GatewayPoint,
        ChannelState, ReqState, stores
<1>1. CASE GatewayLaunch
  BY <1>1 DEF GatewayLaunch
<1>2. CASE Dial
  <2>1. CASE grpc = "serving"
    <3>1. server \in {"bind", "running"}
      BY <2>1
    <3>2. RunMigrations => applied = Migrations
      BY <3>1
    <3> QED
      BY <1>2, <2>1, <3>2 DEF Dial
  <2>2. CASE grpc # "serving"
    BY <1>2, <2>2 DEF Dial, GatewayExits
  <2> QED
    BY <2>1, <2>2
<1>3. CASE BindPort
  BY <1>3 DEF BindPort, GatewayExits, Fault
<1>4. CASE GatewayCrash
  BY <1>4 DEF GatewayCrash, GatewayExits, Fault
<1> QED
  BY <1>1, <1>2, <1>3, <1>4 DEF GatewayMain

(***************************************************************************)
(* The stores and the request change neither main nor the migrations.      *)
(***************************************************************************)
LEMMA OthersKeepSchema ==
  ASSUME SchemaInv,
         StoreStarts \/ StoreStops \/ Arrive \/ Handle \/ UNCHANGED vars
  PROVE  SchemaInv'
<1> USE DeploymentAssumption DEF SchemaInv, TypeOK, PastMigrations, Migrated,
        GrpcInMain, GatewayDialled, ServerPoint, GrpcPoint, GatewayPoint,
        ChannelState, ReqState, stores
<1>1. CASE StoreStarts
  BY <1>1 DEF StoreStarts
<1>2. CASE StoreStops
  <2>1. faults' \in 0 .. MaxFaults
    BY <1>2 DEF StoreStops, Fault
  <2>2. dbUp' \in BOOLEAN /\ redisUp' \in BOOLEAN
    <3>1. CASE dbUp /\ dbUp' = FALSE /\ UNCHANGED redisUp
      BY <3>1
    <3>2. CASE redisUp /\ redisUp' = FALSE /\ UNCHANGED dbUp
      BY <3>2
    <3> QED
      BY <1>2, <3>1, <3>2 DEF StoreStops
  <2>3. UNCHANGED <<applied, server, grpc, gateway, channel, req>>
    BY <1>2 DEF StoreStops
  <2> QED
    BY <2>1, <2>2, <2>3
<1>3. CASE Arrive
  BY <1>3 DEF Arrive
<1>4. CASE Call
  BY <1>4 DEF Call
<1>5. CASE Serve
  BY <1>5 DEF Serve
<1>6. CASE Reply
  BY <1>6 DEF Reply
<1>7. CASE UNCHANGED vars
  BY <1>7 DEF vars
<1> QED
  BY <1>1, <1>2, <1>3, <1>4, <1>5, <1>6, <1>7 DEF Handle

(***************************************************************************)
(* The inductive invariant of the deployment.                              *)
(***************************************************************************)
THEOREM DeploymentInvariant == Spec => []SchemaInv
<1>1. SchemaInv /\ [Next]_vars => SchemaInv'
  BY ServerKeepsSchema, GatewayKeepsSchema, OthersKeepSchema DEF Next
<1> QED
  BY SchemaInit, <1>1, PTL DEF Spec

(***************************************************************************)
(* The deployment's state stays in its types: no fault is miscounted and   *)
(* no more migrations are recorded than there are.                         *)
(***************************************************************************)
THEOREM DeploymentTypeCorrect == Spec => []TypeOK
<1>1. SchemaInv => TypeOK
  BY DEF SchemaInv
<1> QED
  BY DeploymentInvariant, <1>1, PTL

(***************************************************************************)
(* With RUN_MIGRATIONS, a server that can be called and a gateway that has *)
(* dialled one stand before a complete schema.                             *)
(***************************************************************************)
THEOREM NoServiceWithoutSchema == Spec => []SchemaBeforeService
<1>1. SchemaInv => SchemaBeforeService
  BY DEF SchemaInv, SchemaBeforeService, PastMigrations, GrpcInMain,
         GatewayDialled
<1> QED
  BY DeploymentInvariant, <1>1, PTL

=============================================================================
