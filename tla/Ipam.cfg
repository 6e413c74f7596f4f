\* Three sandboxes, two addresses, calls that overlap or not, and one call
\* killed.  The namespace of c has to be mounted.
SPECIFICATION CniFairSpec
CONSTANTS
  a = a
  b = b
  c = c
  Sandbox = {a, b, c}
  NameOf <- SharedName
  Network <- TwoAddresses
  Prefix = 1
  ByteBase = 2
  MaxKills = 1
  Elsewhere = {c}
  Nil = Nil
  Empty = Empty
  Torn = Torn
INVARIANTS
  TypeOK
  NoDuplicateAddress
  NamesItsOwn
  FileExact
  Connected
PROPERTIES
  NoneOnlyWhenFull
  AddressReturned
