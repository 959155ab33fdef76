CONSTANTS
    Binaries = {2, 3}
    Idempotent = {2}
    Altering = {3}
SPECIFICATION BootSpec
INVARIANT NoMigrationSkipped
