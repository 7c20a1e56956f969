SPECIFICATION Spec
CONSTANTS
    RECOVER_TRIES = 2
PROPERTIES
    NeverReloads
