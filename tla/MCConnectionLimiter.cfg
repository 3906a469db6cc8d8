CONSTANT MaxConnections = 4
SPECIFICATION Spec
PROPERTY CooldownRestoresCeiling
