SPECIFICATION Spec
CONSTANTS
  k1 = k1
  k2 = k2
  a1 = a1
  a2 = a2
  b1 = b1
  b2 = b2
  Keys <- TwoKeys
  DerivedOf <- Derived
  Addresses <- TwoAddresses
  NoKeyring = NoKeyring
  Keyrings <- SomeKeyrings
  RoleOptions <- SomeOptions
  ShortRoles <- OneShort
  MaxOperations = 3
  Sender = a1
  Payers <- OnePayer
  Undefined = Undefined
  MaxSettings = 1
  LegacyAddresses <- TwoLegacyAddresses
  LegacyKeys <- TwoKeys
  Contents <- SomeContents
  KeyStores <- TwoArrays
  Instance = Instance
  InstanceContent <- OtherContent
  MaxIndex = 3
  MaxLegacy = 4
  Nothing = Nothing
  Interfaces <- SomeInterfaces
  ArgumentLists <- SomeArguments
  Codes <- SomeCodes
  Filters <- SomeFilters
  MaxContract = 4
  Absent = Absent
  Contracts <- SomeContracts
SYMMETRY Symmetry
INVARIANTS
  TypeOK
  SignedIsAccepted
  ValidatorAgrees
  LegacyFaithful
  ContractAsAsked
CHECK_DEADLOCK FALSE
