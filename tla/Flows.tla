--------------------------------- MODULE Flows ---------------------------------
(***************************************************************************)
(* The client's writes, its offline queue and its forms, and the routes of *)
(* the certification registry and of ratings.  They meet only in the       *)
(* contract and the store, under keys of their own, so a behaviour         *)
(* exercises one of them: the others stay as they began.                   *)
(***************************************************************************)
EXTENDS ContractWrites, OfflineQueue, WarrantyPanel, CertificationRegistry,
        Ratings, TransferForm

CONSTANT Flow     \* the flows an instance exercises

VARIABLE flow

flowsVars == <<writeVars, offlineVars, warrantyVars, registryVars, ratingVars,
               transferVars, flow>>

Init ==
  /\ flow \in Flow
  /\ WritesInit /\ RegistryInit
  /\ OfflineInit /\ (flow # "offline" => tab = [t \in Tab |-> OpenTab])
  /\ WarrantyInit /\ (flow # "warranty" => page = Loaded(FALSE, "none", <<>>))
  /\ RatingsInit /\ (flow # "ratings" => expiresAt = 1)
  /\ TransferInit /\ (flow # "transfer" => fit)

Only(f) ==
  /\ flow = f /\ UNCHANGED flow
  /\ f # "writes" => UNCHANGED writeVars
  /\ f # "offline" => UNCHANGED offlineVars
  /\ f # "warranty" => UNCHANGED warrantyVars
  /\ f # "registry" => UNCHANGED registryVars
  /\ f # "ratings" => UNCHANGED ratingVars
  /\ f # "transfer" => UNCHANGED transferVars

Next ==
  \/ Only("writes") /\ WritesNext
  \/ Only("offline") /\ OfflineNext
  \/ Only("warranty") /\ WarrantyNext
  \/ Only("registry") /\ RegistryNext
  \/ Only("ratings") /\ RatingsNext
  \/ Only("transfer") /\ TransferNext

Spec == Init /\ [][Next]_flowsVars
=============================================================================
