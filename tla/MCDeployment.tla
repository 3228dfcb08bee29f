---------------------------- MODULE MCDeployment ----------------------------
(***************************************************************************)
(* The deployment of docker-compose.yml with the four migrations of        *)
(* migrations/ and RUN_MIGRATIONS=true as in .env.                         *)
(***************************************************************************)
EXTENDS Deployment
=============================================================================
