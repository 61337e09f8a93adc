-------------------------- MODULE LifecycleProofs ---------------------------
(***************************************************************************)
(* The life of a process with LCW, for any number of devices, completion   *)
(* managers and spinlock tables.  The promises are not inductive by        *)
(* themselves: that locks match the table after initialize rests on MPI    *)
(* being initialized only once, when no device is left over, and that a    *)
(* device works on what initialize has checked of the settings before it.  *)
(***************************************************************************)
EXTENDS Lifecycle, TLAPS

(* A table is installed before the first lock is made.                     *)
TableInstalled == setuped \/ backend_p # NULL => spinlock_op # NULL

(* MPI is up exactly between the two halves' work of initialize and        *)
(* finalize, with its managers made, and before it ever was there is no    *)
(* lock and no device.                                                     *)
MpiOnce ==
    /\ MpiFollowsBackend
    /\ inside # NULL => mpi # "up" /\ backend_p # NULL
    /\ mpi = "up" => Len(g_comp_managers) = env.num_comp_managers
    /\ mpi = "none" => devices = {}

(* initialize has looked at the settings before MPI is up.                 *)
SettingsChecked ==
    /\ mpi # "none" => ~RefusedByInitialize /\ (env.num_comp_managers > 0 => ~NoManager)
    /\ devices # {} => ~NoManager

LifeInv == TypeOK /\ TableInstalled /\ MpiOnce /\ SettingsChecked

(* No shared managers.                                                     *)
LEMMA NoManagers == <<>> \in Seq(Tables) /\ Len(<<>>) = 0
  OBVIOUS

(* Nothing was made yet.                                                   *)
LEMMA LifeInit == Init => LifeInv
  <1> SUFFICES ASSUME Init PROVE LifeInv
    OBVIOUS
  <1>1. TypeOK
    <2>1. 0 <= MaxManagers /\ 0 \in 0 .. MaxDevices
      BY LifecycleAssumption
    <2>2. g_comp_managers \in Seq(Tables) /\ Len(g_comp_managers) <= MaxManagers
      BY <2>1, NoManagers DEF Init
    <2> QED  BY <2>1, <2>2 DEF Init, TypeOK
  <1>2. backend_p # "MPI"
    BY LifecycleAssumption DEF Init, Backends
  <1>3. TableInstalled /\ MpiOnce /\ SettingsChecked
    BY <1>2 DEF Init, TableInstalled, MpiOnce, MpiFollowsBackend, SettingsChecked
  <1> QED  BY <1>1, <1>3 DEF LifeInv

(* custom_spinlock_init and init_env return something of their type.       *)
LEMMA ConfigType ==
    ASSUME TypeOK, TableInstalled
    PROVE  InitEnv \in BOOLEAN /\ CustomSpinlockInit \in Tables
  BY DEF TypeOK, TableInstalled, Envs, InitEnv, CustomSpinlockInit, Tables

(* A step that leaves the settings, MPI and the devices alone.             *)
LEMMA SettingsKept ==
    ASSUME SettingsChecked, UNCHANGED <<env, mpi, devices>>
    PROVE  SettingsChecked'
  BY DEF SettingsChecked, RefusedByInitialize, NoManager, CompType

(* A call that ends the process changes nothing else.                      *)
LEMMA LifeEnd ==
    ASSUME LifeInv, EndProcess
    PROVE  LifeInv'
  <1>1. SettingsChecked'
    BY SettingsKept DEF LifeInv, EndProcess
  <1> QED  BY <1>1 DEF LifeInv, EndProcess, TypeOK, TableInstalled, MpiOnce, MpiFollowsBackend

(* initialize, first half: backend_p is set while MPI is down.             *)
LEMMA LifeInitialize ==
    ASSUME LifeInv, NEW b \in Backends \cup {"AUTO"}, Initialize(b)
    PROVE  LifeInv'
  <1> USE DEF LifeInv
  <1>1. CASE EndProcess
    BY <1>1, LifeEnd
  <1>2. CASE ~EndProcess
    <2>1. /\ inside = NULL /\ backend_p = NULL /\ backend_p' \in Enabled
          /\ spinlock_op' = CustomSpinlockInit
          /\ force_default_spinlock' = InitEnv
          /\ inside' = "initialize"
          /\ UNCHANGED <<env, over, mpi, setuped, g_comp_managers, g_ndevices, devices>>
      BY <1>2 DEF Initialize, InClient
    <2>2. TypeOK'
      BY <2>1, ConfigType, LifecycleAssumption DEF TypeOK
    <2>3. TableInstalled'
      BY <2>1, ConfigType, LifecycleAssumption DEF TableInstalled
    <2>4. MpiOnce'
      <3>1. mpi # "up"
        BY <2>1, LifecycleAssumption DEF MpiOnce, MpiFollowsBackend, Backends
      <3>2. backend_p' # NULL /\ inside' # NULL
        BY <2>1, LifecycleAssumption
      <3> QED  BY <2>1, <3>1, <3>2 DEF MpiOnce, MpiFollowsBackend
    <2>5. SettingsChecked'
      BY <2>1, SettingsKept
    <2> QED  BY <2>2, <2>3, <2>4, <2>5
  <1> QED  BY <1>1, <1>2

(* initialize, second half: MPI comes up once, with the managers asked for.*)
LEMMA LifeInitializeBackend ==
    ASSUME LifeInv, InitializeBackend
    PROVE  LifeInv'
  <1> USE DEF LifeInv
  <1>1. CASE EndProcess
    BY <1>1, LifeEnd
  <1>2. CASE ~EndProcess /\ backend_p = "MPI"
    <2>1. /\ ~InitializeMpiFails /\ inside' = NULL /\ mpi' = "up"
          /\ g_comp_managers' = CompManagers(env.num_comp_managers, spinlock_op)
          /\ UNCHANGED <<env, backend_p, over, setuped, spinlock_op,
                         force_default_spinlock, g_ndevices, devices>>
      BY <1>2 DEF InitializeBackend
    <2>2. env.num_comp_managers \in 0 .. MaxManagers /\ spinlock_op \in Tables
      BY <1>2, LifecycleAssumption DEF TypeOK, Envs, TableInstalled, Backends
    <2>3. /\ g_comp_managers' \in Seq(Tables)
          /\ Len(g_comp_managers') = env.num_comp_managers
      <3>1. env.num_comp_managers \in Nat
        BY <2>2, LifecycleAssumption
      <3> QED  BY <2>1, <2>2, <3>1 DEF CompManagers
    <2>4. TypeOK'
      BY <2>1, <2>2, <2>3, LifecycleAssumption DEF TypeOK
    <2>5. TableInstalled'
      BY <2>1 DEF TableInstalled
    <2>6. MpiOnce'
      BY <1>2, <2>1, <2>3 DEF MpiOnce, MpiFollowsBackend
    <2>7. SettingsChecked'
      <3>1. mpi = "none" /\ devices' = {}
        BY <2>1 DEF InitializeMpiFails, MpiOnce
      <3> QED  BY <2>1, <3>1
               DEF SettingsChecked, InitializeMpiFails, RefusedByInitialize, NoManager, CompType
    <2> QED  BY <2>4, <2>5, <2>6, <2>7
  <1>3. CASE ~EndProcess /\ backend_p # "MPI"
    <2>1. /\ inside # NULL /\ inside' = NULL
          /\ UNCHANGED <<env, backend_p, over, mpi, g_comp_managers, setuped, spinlock_op,
                         force_default_spinlock, g_ndevices, devices>>
      BY <1>3, LifecycleAssumption DEF InitializeBackend
    <2>2. SettingsChecked'
      BY <2>1, SettingsKept
    <2> QED  BY <1>3, <2>1, <2>2 DEF TypeOK, TableInstalled, MpiOnce, MpiFollowsBackend
  <1> QED  BY <1>1, <1>2, <1>3

(* finalize: MPI goes down first, then backend_p is reset.                 *)
LEMMA LifeFinalize ==
    ASSUME LifeInv, Finalize \/ ResetBackend
    PROVE  LifeInv'
  <1> USE DEF LifeInv
  <1>1. CASE EndProcess
    BY <1>1, LifeEnd
  <1>2. CASE ~EndProcess /\ Finalize
    <2>1. /\ inside = NULL /\ backend_p # NULL /\ inside' = "finalize"
          /\ UNCHANGED <<env, backend_p, over, setuped, spinlock_op,
                         force_default_spinlock, g_ndevices, devices>>
          /\ IF backend_p = "MPI" THEN mpi' = "finalized" /\ g_comp_managers' = <<>>
             ELSE UNCHANGED <<mpi, g_comp_managers>>
      BY <1>2 DEF Finalize, InClient
    <2>2. TypeOK'
      <3>1. g_comp_managers' \in Seq(Tables) /\ Len(g_comp_managers') <= MaxManagers
        <4>1. CASE g_comp_managers' = <<>>
          BY <4>1, NoManagers, LifecycleAssumption
        <4>2. CASE g_comp_managers' = g_comp_managers
          BY <4>2 DEF TypeOK
        <4> QED  BY <2>1, <4>1, <4>2
      <3>2. mpi' \in {"none", "up", "finalized"}
        BY <2>1 DEF TypeOK
      <3> QED  BY <2>1, <3>1, <3>2 DEF TypeOK
    <2>3. TableInstalled'
      BY <2>1 DEF TableInstalled
    <2>4. MpiOnce'
      BY <2>1, LifecycleAssumption DEF MpiOnce, MpiFollowsBackend
    <2>5. SettingsChecked'
      BY <2>1 DEF SettingsChecked, MpiOnce, MpiFollowsBackend, RefusedByInitialize, NoManager,
                  CompType
    <2> QED  BY <2>2, <2>3, <2>4, <2>5
  <1>3. CASE ~EndProcess /\ ResetBackend
    <2>1. /\ inside = "finalize" /\ inside' = NULL /\ backend_p' = NULL
          /\ UNCHANGED <<env, over, mpi, setuped, spinlock_op, force_default_spinlock,
                         g_comp_managers, g_ndevices, devices>>
      BY <1>3 DEF ResetBackend
    <2>2. TypeOK' /\ TableInstalled'
      BY <2>1 DEF TypeOK, TableInstalled
    <2>3. MpiOnce'
      BY <2>1, LifecycleAssumption DEF MpiOnce, MpiFollowsBackend, Backends
    <2>4. SettingsChecked'
      BY <2>1, SettingsKept
    <2> QED  BY <2>2, <2>3, <2>4
  <1> QED  BY <1>1, <1>2, <1>3

(* A new device has locks of the tables of that moment, and of a manager   *)
(* that is there.                                                          *)
LEMMA NewDeviceType ==
    ASSUME LifeInv, backend_p = "MPI", NEW id \in 0 .. MaxDevices
    PROVE  /\ NewDevice(id) \in Device
           /\ NewDevice(id).put_entry_lock = spinlock_op
           /\ NewDevice(id).stream_lock \in {spinlock_op, NULL}
           /\ \/ NewDevice(id).comp_manager_p = spinlock_op
              \/ \E i \in DOMAIN g_comp_managers :
                    NewDevice(id).comp_manager_p = g_comp_managers[i]
  <1>1. spinlock_op \in Tables /\ g_comp_managers \in Seq(Tables) /\ id \in Nat
    BY LifecycleAssumption DEF LifeInv, TypeOK, TableInstalled, Backends
  <1>2. CASE g_comp_managers = <<>>
    BY <1>1, <1>2 DEF NewDevice, Device
  <1>3. CASE g_comp_managers # <<>>
    <2>1. Len(g_comp_managers) \in Nat /\ Len(g_comp_managers) > 0
      BY <1>1, <1>3
    <2>2. PICK i : i = 1 + (id % Len(g_comp_managers))
      OBVIOUS
    <2>3. i \in 1 .. Len(g_comp_managers)
      BY <1>1, <2>1, <2>2
    <2>4. i \in DOMAIN g_comp_managers /\ g_comp_managers[i] \in Tables
      BY <1>1, <2>3
    <2> QED  BY <1>1, <1>3, <2>2, <2>4 DEF NewDevice, Device
  <1> QED  BY <1>2, <1>3

(* alloc_device: where shared managers are in use initialize has seen that *)
(* they can be made, elsewhere alloc_device has.                           *)
LEMMA LifeAllocDevice ==
    ASSUME LifeInv, AllocDevice
    PROVE  LifeInv'
  <1> USE DEF LifeInv
  <1>1. /\ backend_p = "MPI" /\ inside = NULL /\ g_ndevices < MaxDevices
        /\ ~(g_comp_managers = <<>> /\ NoManager)
        /\ g_ndevices' = g_ndevices + 1 /\ devices' = devices \cup {NewDevice(g_ndevices)}
        /\ UNCHANGED <<env, backend_p, inside, over, mpi, setuped, spinlock_op,
                       force_default_spinlock, g_comp_managers>>
    BY DEF AllocDevice, InClient
  <1>2. TypeOK'
    <2>1. g_ndevices \in 0 .. MaxDevices /\ g_ndevices' \in 0 .. MaxDevices
      BY <1>1, LifecycleAssumption DEF TypeOK
    <2>2. NewDevice(g_ndevices) \in Device
      BY <1>1, <2>1, NewDeviceType
    <2> QED  BY <1>1, <2>1, <2>2 DEF TypeOK
  <1>3. TableInstalled'
    BY <1>1 DEF TableInstalled
  <1>4. mpi = "up"
    BY <1>1 DEF MpiOnce, MpiFollowsBackend
  <1>5. MpiOnce'
    BY <1>1, <1>4 DEF MpiOnce, MpiFollowsBackend
  <1>6. SettingsChecked'
    <2>1. ~NoManager
      <3>1. g_comp_managers # <<>> => env.num_comp_managers > 0
        BY <1>4 DEF MpiOnce, TypeOK
      <3> QED  BY <1>1, <1>4, <3>1 DEF SettingsChecked
    <2> QED  BY <1>1, <1>4, <2>1 DEF SettingsChecked, RefusedByInitialize, NoManager, CompType
  <1> QED  BY <1>2, <1>3, <1>5, <1>6

(* free_device leaves the settings and MPI alone.                          *)
LEMMA LifeFreeDevice ==
    ASSUME LifeInv, NEW d \in devices, FreeDevice(d)
    PROVE  LifeInv'
  <1>1. SettingsChecked'
    BY DEF LifeInv, FreeDevice, SettingsChecked, RefusedByInitialize, NoManager, CompType
  <1> QED  BY <1>1 DEF LifeInv, FreeDevice, TypeOK, TableInstalled, MpiOnce, MpiFollowsBackend

(* Every call keeps it, and so does a call that ends the process.          *)
LEMMA LifeNext ==
    ASSUME LifeInv, [Next]_vars
    PROVE  LifeInv'
  <1>1. ASSUME NEW table \in CustomTables, CustomSpinlockSetup(table) PROVE LifeInv'
    <2>1. SettingsChecked'
      BY <1>1, SettingsKept DEF CustomSpinlockSetup, LifeInv
    <2> QED  BY <1>1, <2>1, LifecycleAssumption
             DEF CustomSpinlockSetup, LifeInv, TypeOK, TableInstalled, MpiOnce,
                 MpiFollowsBackend, Tables
  <1>2. ASSUME UNCHANGED vars PROVE LifeInv'
    <2>1. SettingsChecked'
      BY <1>2, SettingsKept DEF vars, LifeInv
    <2> QED  BY <1>2, <2>1 DEF vars, LifeInv, TypeOK, TableInstalled, MpiOnce, MpiFollowsBackend
  <1> QED  BY <1>1, <1>2, LifeEnd, LifeInitialize, LifeInitializeBackend, LifeFinalize,
              LifeAllocDevice, LifeFreeDevice
           DEF Next, CallWithoutBackend, AllocDeviceFails

(* The invariant holds in every state of every sequence of calls.          *)
THEOREM LifeCorrect == Spec => []LifeInv
  BY LifeInit, LifeNext, PTL DEF Spec

(* MPI is up only while it is the backend, and outside of initialize and   *)
(* finalize always then.                                                   *)
THEOREM MpiFollows == Spec => []MpiFollowsBackend
  <1>1. LifeInv => MpiFollowsBackend
    BY DEF LifeInv, MpiOnce
  <1> QED  BY <1>1, LifeCorrect, PTL

(* A device that was allocated uses only what the MPI library has, though  *)
(* initialize lets a setting pass that alloc_device refuses.               *)
THEOREM DevicesWork == Spec => []DevicesSupported
  <1>1. LifeInv => DevicesSupported
    BY DEF LifeInv, SettingsChecked, MpiOnce, DevicesSupported, RefusedByInitialize, NoManager
  <1> QED  BY <1>1, LifeCorrect, PTL

(* The environment, the tables, the locks and the devices keep their types.*)
THEOREM LifeTypes == Spec => []TypeOK
  BY LifeCorrect, PTL DEF LifeInv

(* A lock is of the table installed when it is made, which is why a call   *)
(* that installs none leaves locks and table in agreement.                 *)
LEMMA TableNext ==
    ASSUME LifeInv, LocksMatchTable, Next,
           ~\E table \in CustomTables : CustomSpinlockSetup(table)
    PROVE  LocksMatchTable'
  <1> USE DEF LifeInv, LocksMatchTable
  <1>1. ASSUME EndProcess PROVE LocksMatchTable'
    BY <1>1 DEF EndProcess, LiveLocks
  <1>2. ASSUME NEW b \in Backends \cup {"AUTO"}, Initialize(b) PROVE LocksMatchTable'
    BY <1>1, <1>2, LifecycleAssumption DEF Initialize
  <1>3. ASSUME InitializeBackend, ~EndProcess PROVE LocksMatchTable'
    <2> SUFFICES ASSUME backend_p' = "MPI" PROVE LiveLocks' \subseteq {spinlock_op'}
      OBVIOUS
    <2>1. /\ mpi = "none" /\ devices' = devices /\ spinlock_op' = spinlock_op
          /\ g_comp_managers' = CompManagers(env.num_comp_managers, spinlock_op)
      BY <1>3 DEF InitializeBackend, InitializeMpiFails
    <2>2. devices' = {}
      BY <2>1 DEF MpiOnce
    <2> QED  BY <2>1, <2>2 DEF CompManagers, LiveLocks
  <1>4. ASSUME Finalize \/ ResetBackend, ~EndProcess PROVE LocksMatchTable'
    BY <1>4, LifecycleAssumption DEF Finalize, ResetBackend, Backends
  <1>5. ASSUME AllocDevice PROVE LocksMatchTable'
    <2>1. /\ backend_p = "MPI" /\ inside = NULL /\ g_ndevices \in 0 .. MaxDevices
          /\ devices' = devices \cup {NewDevice(g_ndevices)}
          /\ UNCHANGED <<backend_p, inside, spinlock_op, g_comp_managers>>
      BY <1>5 DEF AllocDevice, InClient, TypeOK
    <2>2. LiveLocks \subseteq {spinlock_op}
      BY <2>1
    <2>3. \A i \in DOMAIN g_comp_managers : g_comp_managers[i] = spinlock_op
      BY <2>2 DEF LiveLocks
    <2>4. {NewDevice(g_ndevices).put_entry_lock, NewDevice(g_ndevices).stream_lock,
           NewDevice(g_ndevices).comp_manager_p} \ {NULL} \subseteq {spinlock_op}
      BY <2>1, <2>3, NewDeviceType
    <2> QED  BY <2>1, <2>2, <2>4 DEF LiveLocks
  <1>6. ASSUME NEW d \in devices, FreeDevice(d) PROVE LocksMatchTable'
    BY <1>6 DEF FreeDevice, LiveLocks
  <1> QED  BY <1>1, <1>2, <1>3, <1>4, <1>5, <1>6
           DEF Next, CallWithoutBackend, AllocDeviceFails

(* No step but a custom_spinlock_setup while locks are alive ever brings a *)
(* lock to a table that did not make it, whatever the environment and the  *)
(* order of the other calls.                                               *)
THEOREM OnlySetup == Spec => OnlySetupMismatches
  <1> DEFINE Blamed == LocksMatchTable /\ ~LocksMatchTable' =>
                          LiveLocks # {} /\ \E table \in CustomTables : CustomSpinlockSetup(table)
  <1>1. LifeInv /\ [Next]_vars => [Blamed]_vars
    <2> SUFFICES ASSUME LifeInv, Next, LocksMatchTable, ~LocksMatchTable'
                 PROVE  LiveLocks # {} /\ \E table \in CustomTables : CustomSpinlockSetup(table)
      OBVIOUS
    <2>1. PICK table \in CustomTables : CustomSpinlockSetup(table)
      BY TableNext
    <2>2. LiveLocks' = LiveLocks
      BY <2>1 DEF CustomSpinlockSetup, LiveLocks
    <2>3. LiveLocks # {}
      BY <2>2 DEF LocksMatchTable
    <2> QED  BY <2>1, <2>3
  <1> QED  BY <1>1, LifeCorrect, PTL DEF Spec, OnlySetupMismatches
=============================================================================
