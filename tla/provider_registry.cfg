\* Two loads of two files that declare two Profiles of two Providers: a binding
\* of one Profile against two rebuilds.
CONSTANTS
  r1 = r1
  r2 = r2
  r3 = r3
  b1 = b1
  u1 = u1
  u2 = u2
  NoNumber = NoNumber
  None = None
  Profiles = {"f1", "f2"}
  Providers = {"v1", "v2"}
  ProviderOf <- OneProviderEach
  Registrars = {r1, r2, r3}
  Binders = {b1}
  Rebuilders = {u1, u2}
  Subject <- SubjectOfEach
  Loads = {l1, l2}
  YAMLPaths = {1, 2}
  TextsAt <- TextsOfEach
  Environment <- Variables
  TrimSpace <- Spaceless
  DeclaredProviders = {"v1", "v2"}
  Fault = Fault
SYMMETRY AnyLoadFirst
SPECIFICATION BindingSpec
INVARIANTS
  SnapshotIsWhole
  FirstValidProfileWins
  ProfilesAreUsable
PROPERTIES
  BoundUntilRebuild
CHECK_DEADLOCK FALSE
