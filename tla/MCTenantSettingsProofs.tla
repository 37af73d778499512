----------------------- MODULE MCTenantSettingsProofs -----------------------
(***************************************************************************)
(* What MCTenantSettings checks of parts that are instances, proved for    *)
(* every value of its constants.  A behaviour of the parts side by side is *)
(* a behaviour of each of them, so that a theorem about the part (module   *)
(* TenantSettingsProofs or AccountsProofs) holds of it here.               *)
(***************************************************************************)
EXTENDS MCTenantSettings, TLAPS

(* The constants of the page with every control satisfy what TenantSettings *)
(* assumes of its own.                                                      *)
LEMMA ControlledAssumption == Controlled!TenantSettingsAssumption
BY TenantSettingsAssumption
   DEF TenantSettingsAssumption, Controlled!TenantSettingsAssumption,
       Controls, Controlled!Controls, None, Controlled!None

(* Side by side, the page with every control does what it does alone.      *)
LEMMA ControlledAlone == EachSpec => Controlled!Spec
<1>1. EachInit => Controlled!Init
  BY DEF EachInit, ControlledAtStart
<1>2. [EachNext]_allVars => [Controlled!Next]_(Controlled!vars)
  BY DEF EachNext, allVars, controlledVars, Controlled!vars, Controlled!server, Controlled!view
<1> QED
  BY <1>1, <1>2, PTL DEF EachSpec, Controlled!Spec

(* Side by side, the accounts do what they do alone.                       *)
LEMMA EntranceAlone == EachSpec => Entrance!Spec
<1>1. EachInit => Entrance!Init
  BY DEF EachInit, EntranceAtStart
<1>2. [EachNext]_allVars => [Entrance!Next]_(Entrance!vars)
  BY DEF EachNext, allVars, entranceVars, Entrance!vars, Entrance!db
<1> QED
  BY <1>1, <1>2, PTL DEF EachSpec, Entrance!Spec
-----------------------------------------------------------------------------
(* Whichever controls are used together, and whichever requests fail, a    *)
(* control of the settings page is held exactly while its handler of this  *)
(* visit runs, and none runs twice at once on a visit (Settings.tsx).      *)
THEOREM EveryControlHeld == EachSpec => []HeldControlsTold
<1>1. Controlled!Spec => []Controlled!FlagsTellHandlers
  BY ControlledAssumption, Controlled!HeldControls
<1> QED
  BY <1>1, ControlledAlone, PTL DEF HeldControlsTold

(* However sign-ups and acceptances overlap in any number of browsers, and *)
(* whichever statements fail, no address has two accounts: the insert      *)
(* decides, not the check before it (auth.go).                             *)
THEOREM OneAccountEach == EachSpec => []OneAccountPerEmail
<1>1. Entrance!Spec => []Entrance!OneAccountPerEmail
  BY EntranceAssumption, Entrance!OneAccount
<1> QED
  BY <1>1, EntranceAlone, PTL DEF OneAccountPerEmail

(* Nobody is a member who neither founded the tenant nor was invited to    *)
(* it, at that address and for that role, but for the owners of the        *)
(* default tenant who signed up without naming an organization (auth.go,   *)
(* tenant_admin.go).                                                       *)
THEOREM EveryMemberLetIn == EachSpec => []MembersWereLetIn
<1>1. Entrance!Spec => []Entrance!MembersWereLetIn
  BY EntranceAssumption, Entrance!NobodyUninvited
<1> QED
  BY <1>1, EntranceAlone, PTL DEF MembersWereLetIn
=============================================================================
