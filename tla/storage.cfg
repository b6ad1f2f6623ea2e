SPECIFICATION Spec
CONSTANTS
    Proc = {p1, p2}
    Name = {a, b}
    Ticket = {t1}
    Key = {k1, k2, k3}
    Client = {c1}
    Field = {relay}
    PubKey = PubKey
    Hash = Hash
    NoFile = NoFile
    Torn = Torn
    MaxJournal = 2
SYMMETRY Sym
INVARIANTS FilesSound ResetWipes
PROPERTIES FilesAtomic NodeKeepsIdentity ProfilesKept
